---------------------------- MODULE Spec2Model ----------------------------
(***************************************************************************)
(* Model of the vnstock installation pipeline:                             *)
(*   - vnstock_cli.py       the orchestrator (VNStockCLIInstaller.run)     *)
(*   - vnstock-installer.py the inner installer it launches (main,         *)
(*                          VnstockLicenseManager)                         *)
(* The orchestrator starts the inner installer as a subprocess, waits for  *)
(* it, and decides its own result from the captured output.                *)
(***************************************************************************)
EXTENDS Integers, Sequences, FiniteSets, TLC

(***************************************************************************)
(* Bounds of the model.                                                    *)
(***************************************************************************)
\* longest list of artifacts the entitlement service returns in a full run
MaxQueue == 2
\* longest list of artifacts given to the ordering step on its own
MaxList == 4
\* most entries in the top level of an extracted archive
MaxItems == 2
\* most lines of a served manifest
MaxManifest == 2
\* most seconds that pass between two calls of the fingerprint function
MaxClock == 2
\* largest device limit of an account
MaxDevices == 2

(***************************************************************************)
(* Program constants.                                                      *)
(***************************************************************************)
\* sys.exit code of the inner installer on KeyboardInterrupt
EXIT_CANCELLED == 130
\* exit code for a failed run
EXIT_FAILURE == 1
\* exit code for a successful run
EXIT_SUCCESS == 0
\* "not exited yet"
NotExited == 0 - 1

\* main(): package_order
package_order ==
    << "vnstock", "vnstock_data", "vnstock_ta", "vnstock_pipeline",
       "vnstock_news" >>

\* names the entitlement service may return that package_order does not know
UnknownNames == {"vnstock_x", "vnstock_y"}

\* artifact names used by the ordering step on its own
SortNames == {"vnstock", "vnstock_data", "vnstock_ta", "vnstock_news"}
                 \cup UnknownNames

\* artifact names used in a full run
QueueNames == {"vnstock_data", "vnstock_x"}

(***************************************************************************)
(* Generic helpers.                                                        *)
(***************************************************************************)
SeqsUpTo(S, n) == UNION {[1..k -> S] : k \in 0..n}

(***************************************************************************)
(* Installation order: sorted(available_packages, key=get_package_priority)*)
(***************************************************************************)
\* list.index(name): position (0-based) of the first occurrence
index_of(order, name) ==
    (CHOOSE i \in 1..Len(order) :
        /\ order[i] = name
        /\ \A j \in 1..(i - 1) : order[j] # name) - 1

\* a faulty variant: unknown names are ranked before every known one
get_package_priority_unknown_first(pkg) ==
    IF \E i \in 1..Len(package_order) : package_order[i] = pkg
    THEN index_of(package_order, pkg)
    ELSE 0 - 1

\* a faulty variant: the declared order is applied backwards
get_package_priority_reversed(pkg) ==
    IF \E i \in 1..Len(package_order) : package_order[i] = pkg
    THEN Len(package_order) - index_of(package_order, pkg)
    ELSE Len(package_order) + 1

\* main.get_package_priority: index in package_order, or len(package_order)
\* on ValueError
get_package_priority(pkg) ==
    IF \E i \in 1..Len(package_order) : package_order[i] = pkg
    THEN index_of(package_order, pkg)
    ELSE Len(package_order)

\* insert x into an already sorted list after every element whose key is
\* not greater (what keeps a sort stable)
RECURSIVE insert_stable(_, _)
insert_stable(x, s) ==
    IF s = << >> THEN << x >>
    ELSE IF get_package_priority(x) < get_package_priority(Head(s))
         THEN << x >> \o s
         ELSE << Head(s) >> \o insert_stable(x, Tail(s))

\* sorted(seq, key=get_package_priority): Python's sort is stable
RECURSIVE sorted_by_priority(_)
sorted_by_priority(s) ==
    IF s = << >> THEN << >>
    ELSE insert_stable(s[Len(s)], sorted_by_priority(SubSeq(s, 1, Len(s) - 1)))


(***************************************************************************)
(* download_package: one artifact, from the download-URL request to the    *)
(* verification of the import.  The operator takes what the outside world  *)
(* answers at each stage (o) and returns what the call did and returned.   *)
(***************************************************************************)
\* kinds of entries os.listdir finds at the top of the extraction directory
\*   "file"     a file that is not a build descriptor
\*   "dir"      a directory with no build descriptor anywhere below it
\*   "dir_desc" a directory that directly holds setup.py / pyproject.toml
\*   "dir_deep" a directory that holds one only further down
ItemKinds == {"file", "dir", "dir_desc", "dir_deep"}

\* an extracted archive: is a descriptor at the root, and the other entries
\* in os.listdir order
Archives == [root : BOOLEAN, items : SeqsUpTo(ItemKinds, MaxItems)]

\* os.listdir(temp_extract_dir) is empty
no_files_extracted(a) == ~a.root /\ a.items = << >>

\* a faulty variant: the search also accepts a descriptor further down
find_setup_dir_deep(a) ==
    IF a.root THEN "root"
    ELSE IF \E i \in 1..Len(a.items) : a.items[i] \in {"dir_desc", "dir_deep"}
         THEN "child"
         ELSE "none"

\* lines 897-926: the directory handed to the package manager: the root
\* when it holds a descriptor, else the first direct child that holds one
find_setup_dir(a) ==
    IF a.root THEN "root"
    ELSE IF \E i \in 1..Len(a.items) : a.items[i] = "dir_desc"
         THEN "child"
         ELSE "none"

\* the position of the child chosen by the loop over extracted_files (break
\* at the first match), 0 when none or the root was chosen
setup_dir_index(a) ==
    IF ~a.root /\ \E i \in 1..Len(a.items) : a.items[i] = "dir_desc"
    THEN CHOOSE i \in 1..Len(a.items) :
            /\ a.items[i] = "dir_desc"
            /\ \A j \in 1..(i - 1) : a.items[j] # "dir_desc"
    ELSE 0

\* answers of the outside world to one download_package call
\*   url     POST /packages/download
\*   dl      GET of the signed URL
\*   tmp     writing the archive to the temporary file
\*   extract mkdtemp + tarfile.open + extractall
\*   archive what the archive holds
\*   pip     the "uv pip install" subprocess
\*   wrote   whether that subprocess changed the target interpreter
\*   verify  the import check subprocess
UrlAnswers == {"ok", "ok_nojson", "ok_nokey", "denied", "denied_nojson",
               "timeout", "neterr"}
DlAnswers == {"ok", "non200", "timeout", "neterr"}
TmpAnswers == {"ok", "write_error"}
ExtractAnswers == {"ok", "tarerror", "oserror"}
PipAnswers == {"rc0", "rc0_stderr_indicator", "rc1", "timeout", "oserror"}
VerifyAnswers == {"ok", "nonzero", "no_marker", "timeout", "exception"}

DefaultArchive == [root |-> TRUE, items |-> << >>]

Outcome(u, d, t, e, a, p, w, v) ==
    [url |-> u, dl |-> d, tmp |-> t, extract |-> e, archive |-> a,
     pip |-> p, wrote |-> w, verify |-> v]

\* every answer sequence, with the answers of stages that are never reached
\* fixed (they cannot be observed)
OutcomesOver(archives) ==
    {Outcome(u, "ok", "ok", "ok", DefaultArchive, "rc0", FALSE, "ok") :
        u \in UrlAnswers \ {"ok"}}
    \cup {Outcome("ok", d, "ok", "ok", DefaultArchive, "rc0", FALSE, "ok") :
        d \in DlAnswers \ {"ok"}}
    \cup {Outcome("ok", "ok", "write_error", "ok", DefaultArchive, "rc0", FALSE, "ok")}
    \cup {Outcome("ok", "ok", "ok", e, DefaultArchive, "rc0", FALSE, "ok") :
        e \in ExtractAnswers \ {"ok"}}
    \cup {Outcome("ok", "ok", "ok", "ok", a, "rc0", FALSE, "ok") :
        a \in {x \in archives : find_setup_dir(x) = "none"}}
    \cup {Outcome("ok", "ok", "ok", "ok", a, p, w, "ok") :
        a \in {x \in archives : find_setup_dir(x) # "none"},
        p \in PipAnswers \ {"rc0"}, w \in BOOLEAN}
    \cup {Outcome("ok", "ok", "ok", "ok", a, "rc0", TRUE, v) :
        a \in {x \in archives : find_setup_dir(x) # "none"},
        v \in VerifyAnswers}

PkgOutcomes == OutcomesOver(Archives)

\* the answers drawn in a full run
QueueOutcomes ==
    { Outcome("ok", "ok", "ok", "ok", DefaultArchive, "rc0", TRUE, "ok"),
      Outcome("denied", "ok", "ok", "ok", DefaultArchive, "rc0", FALSE, "ok"),
      Outcome("ok", "timeout", "ok", "ok", DefaultArchive, "rc0", FALSE, "ok"),
      Outcome("ok", "ok", "ok", "tarerror", DefaultArchive, "rc0", FALSE, "ok"),
      Outcome("ok", "ok", "ok", "ok", DefaultArchive, "timeout", FALSE, "ok"),
      Outcome("timeout", "ok", "ok", "ok", DefaultArchive, "rc0", FALSE, "ok") }

\* a message returned by download_package: its fixed text (kind) and the
\* text of the exception or server answer it quotes (detail)
Msg(k, d) == [kind |-> k, detail |-> d]

\* what a download_package call did and returned
dp_start(package_name) ==
    [name |-> package_name, returned |-> FALSE, success |-> FALSE,
     message |-> Msg("none", "none"),
     url_requested |-> FALSE, archive_requested |-> FALSE,
     url_posts |-> 0, archive_gets |-> 0,
     tar_created |-> FALSE, tar_left |-> FALSE,
     dir_created |-> FALSE, dir_left |-> FALSE,
     extracted |-> FALSE, setup_dir |-> "unset", setup_index |-> 0,
     pip_invoked |-> FALSE, pip_completed |-> FALSE,
     verify_invoked |-> FALSE, wrote_site |-> FALSE]

dp_return(r, ok, msg) ==
    [r EXCEPT !.returned = TRUE, !.success = ok, !.message = msg]

\* lines 1025-1029: finally: os.unlink(temp_tar_path)
finally_unlink(r) == [r EXCEPT !.tar_left = FALSE]

\* lines 1031-1035: except subprocess.TimeoutExpired
on_timeout_expired(r) == dp_return(r, TRUE, Msg("prepared", "none"))

\* lines 1036-1042: except tarfile.TarError
on_tar_error(r) == dp_return(r, FALSE, Msg("Extraction error", "tarerror"))

\* a faulty variant: the generic handler reports a failure
on_exception_hard(r, e) == dp_return(r, FALSE, Msg("prepared (error)", e))

\* lines 1043-1051: except Exception
on_exception(r, e) == dp_return(r, TRUE, Msg("prepared (error)", e))

\* a faulty variant: the import check decides the result
verify_strict(v) == v = "ok"

\* lines 1125-1168: _verify_package_import returns True on every path
verify_package_import(v) == TRUE

\* a faulty variant: the error stream of the install is not looked at
has_error_never(p) == FALSE

\* lines 952-969: has_error: the lower-cased error stream of the install
\* holds one of the lower-cased indicators
has_error(p) == p = "rc0_stderr_indicator"

returncode(p) == IF p \in {"rc0", "rc0_stderr_indicator"} THEN 0 ELSE 1

\* lines 928-1013: setup_dir found: run the package manager, then verify
install_stage(r, o) ==
    LET r1 == [r EXCEPT !.pip_invoked = TRUE, !.wrote_site = o.wrote] IN
    IF o.pip = "timeout" THEN on_timeout_expired(finally_unlink(r1))
    ELSE IF o.pip = "oserror" THEN on_exception(finally_unlink(r1), "pip_oserror")
    ELSE
      LET r2 == [r1 EXCEPT !.pip_completed = TRUE, !.dir_left = FALSE] IN
      IF returncode(o.pip) = 0 /\ ~has_error(o.pip)
      THEN LET r3 == [r2 EXCEPT !.verify_invoked = TRUE] IN
           IF verify_package_import(o.verify)
           THEN dp_return(finally_unlink(r3), TRUE,
                          Msg("installed successfully", "none"))
           ELSE dp_return(finally_unlink(r3), FALSE,
                          Msg("Installation failed - package cannot be imported",
                              "none"))
      ELSE dp_return(finally_unlink(r2), FALSE,
                     Msg("Installation failed - pip error (check logs)", "none"))

\* a faulty variant: the install runs on the root without looking for a
\* descriptor
locate_stage_no_check(r, o) ==
    install_stage([r EXCEPT !.setup_dir = "root"], o)

\* lines 897-928 and 1014-1023: locate the build descriptor
locate_stage(r, o) ==
    LET r1 == [r EXCEPT !.setup_dir = find_setup_dir(o.archive),
                        !.setup_index = setup_dir_index(o.archive)] IN
    IF r1.setup_dir # "none"
    THEN install_stage(r1, o)
    ELSE dp_return(finally_unlink([r1 EXCEPT !.dir_left = FALSE]), FALSE,
                   Msg("Package structure invalid", "none"))

\* a faulty variant: the outcome of the extraction is not looked at
extract_stage_unchecked(r, o) ==
    locate_stage([r EXCEPT !.dir_created = TRUE, !.dir_left = TRUE,
                           !.extracted = TRUE], o)

\* lines 865-895: extract into a fresh temporary directory
extract_stage(r, o) ==
    LET r1 == [r EXCEPT !.dir_created = TRUE, !.dir_left = TRUE] IN
    IF o.extract = "tarerror" THEN on_tar_error(finally_unlink(r1))
    ELSE IF o.extract = "oserror"
         THEN on_exception(finally_unlink(r1), "extract_oserror")
    ELSE IF no_files_extracted(o.archive)
         THEN dp_return(finally_unlink([r1 EXCEPT !.dir_left = FALSE]), FALSE,
                        Msg("No files extracted", "none"))
    ELSE locate_stage([r1 EXCEPT !.extracted = TRUE], o)

\* lines 854-863: save the archive to a temporary file (delete=False)
tmpfile_stage(r, o) ==
    LET r1 == [r EXCEPT !.tar_created = TRUE, !.tar_left = TRUE] IN
    IF o.tmp = "write_error" THEN on_exception(r1, "tmp_write_error")
    ELSE extract_stage(r1, o)

\* archive_stage with a timed-out download reported like a refused one
archive_stage_timeout_fails(r, o) ==
    LET r1 == [r EXCEPT !.archive_requested = TRUE,
                        !.archive_gets = @ + 1] IN
    IF o.dl = "timeout"
    THEN dp_return(r1, FALSE, Msg("prepared (error)", "download_timeout"))
    ELSE IF o.dl = "neterr" THEN on_exception(r1, "download_neterr")
    ELSE IF o.dl = "non200"
         THEN dp_return(r1, FALSE, Msg("Download failed: HTTP", "status"))
    ELSE tmpfile_stage(r1, o)

\* a faulty variant: a download that timed out is requested again
archive_stage_retrying(r, o) ==
    LET r1 == [r EXCEPT !.archive_requested = TRUE,
                        !.archive_gets = IF o.dl = "timeout" THEN @ + 2
                                         ELSE @ + 1] IN
    IF o.dl = "timeout" THEN on_exception(r1, "download_timeout")
    ELSE IF o.dl = "neterr" THEN on_exception(r1, "download_neterr")
    ELSE IF o.dl = "non200"
         THEN dp_return(r1, FALSE, Msg("Download failed: HTTP", "status"))
    ELSE tmpfile_stage(r1, o)

\* lines 832-852: download the archive
archive_stage(r, o) ==
    LET r1 == [r EXCEPT !.archive_requested = TRUE,
                        !.archive_gets = @ + 1] IN
    IF o.dl = "timeout" THEN on_exception(r1, "download_timeout")
    ELSE IF o.dl = "neterr" THEN on_exception(r1, "download_neterr")
    ELSE IF o.dl = "non200"
         THEN dp_return(r1, FALSE, Msg("Download failed: HTTP", "status"))
    ELSE tmpfile_stage(r1, o)

\* lines 783-1051
download_package(package_name, o) ==
    LET r1 == [dp_start(package_name) EXCEPT !.url_requested = TRUE,
                                             !.url_posts = @ + 1] IN
    IF o.url = "timeout" THEN on_exception(r1, "url_timeout")
    ELSE IF o.url = "neterr" THEN on_exception(r1, "url_neterr")
    ELSE IF o.url = "denied" THEN dp_return(r1, FALSE, Msg("server error", "error"))
    ELSE IF o.url = "denied_nojson" THEN on_exception(r1, "json_decode")
    ELSE IF o.url = "ok_nojson" THEN on_exception(r1, "json_decode")
    ELSE IF o.url = "ok_nokey" THEN on_exception(r1, "KeyError")
    ELSE archive_stage(r1, o)


(***************************************************************************)
(* Output of the inner installer as the orchestrator reads it (stdout and  *)
(* stderr are captured together).  Only the lines that can match one of    *)
(* the orchestrator's tests are kept; every other line is echoed and has   *)
(* no effect.                                                              *)
(***************************************************************************)
Line(k, t, n) == [kind |-> k, text |-> t, n |-> n]

\* answers of POST /auth/device-register
RegAnswers == {"200", "429", "429_nojson", "429_notdict", "500", "neterr"}

\* the answers drawn in a full run
RunRegAnswers == {a \in RegAnswers : a \in {"200", "429", "neterr"}}

\* the text the server puts in its JSON body: 'message' on 429, 'error' on
\* another status
server_text(a) ==
    IF a = "429" THEN "limit of 2 devices reached"
    ELSE IF a = "500" THEN "internal error"
    ELSE "none"

\* lines 539-624: register_device returns (success, message); detail is the
\* server's text carried in the message, posts the number of requests sent.
\* A 429 whose body is not JSON makes response.json() raise the library's
\* JSONDecodeError, a RequestException (line 617; a library older than 2.27
\* raises a ValueError, which ends at line 621 instead); a 429 whose JSON
\* body is not an object makes data.get raise (line 621).
register_device(a) ==
    IF a = "200"
    THEN [ok |-> TRUE, message |-> "Device registered successfully",
          detail |-> "none", posts |-> 1]
    ELSE IF a = "429"
    THEN [ok |-> FALSE, message |-> "Device limit exceeded",
          detail |-> server_text(a), posts |-> 1]
    ELSE IF a = "500"
    THEN [ok |-> FALSE, message |-> "server error",
          detail |-> server_text(a), posts |-> 1]
    ELSE IF a \in {"neterr", "429_nojson"}
    THEN [ok |-> FALSE, message |-> "Network error",
          detail |-> "none", posts |-> 1]
    ELSE [ok |-> FALSE, message |-> "Registration error",
          detail |-> "none", posts |-> 1]

\* main(), lines 1297-1300: use_vietnamese = lang_choice != '2'
use_vietnamese(lang_choice) == lang_choice # "2"

\* print_installation_summary, lines 1181-1204: the two labels
summary_label(lang_choice) ==
    IF use_vietnamese(lang_choice) THEN "vi" ELSE "en"

\* lines 1228-1239: the lines "<successful_label>: n" and "<failed_label>: n"
summary_lines(results, lang_choice) ==
    LET nOk == Cardinality({i \in 1..Len(results) : results[i].success})
        nFail == Cardinality({i \in 1..Len(results) : ~results[i].success})
    IN  << Line("summary_successful", summary_label(lang_choice), nOk) >>
        \o (IF nFail > 0
            THEN << Line("summary_failed", summary_label(lang_choice), nFail) >>
            ELSE << >>)

\* line 2368: 'device limit exceeded' in line.lower()
has_device_limit_phrase(line) ==
    line.kind = "reg_failed" /\ line.text = "Device limit exceeded"

\* lines 2406-2415: the line holds 'failed' and the marker "Failed:" of the
\* English summary ("That bai" of the Vietnamese one holds neither)
has_failed_marker(line) == line.kind = "summary_failed" /\ line.text = "en"

\* lines 2418-2425: the line holds 'success' and the marker "Successful:"
has_successful_marker(line) ==
    line.kind = "summary_successful" /\ line.text = "en"

\* lines 2366-2370
device_limit_exceeded(out) ==
    \E i \in 1..Len(out) : has_device_limit_phrase(out[i])

\* lines 2402-2418: the number parsed from the last line that carries the
\* failure marker, 0 if there is none
failed_count(out) ==
    IF \E i \in 1..Len(out) : has_failed_marker(out[i])
    THEN out[CHOOSE i \in 1..Len(out) :
                /\ has_failed_marker(out[i])
                /\ \A j \in (i + 1)..Len(out) : ~has_failed_marker(out[j])].n
    ELSE 0

\* lines 2419-2427: the same for the success marker
success_count(out) ==
    IF \E i \in 1..Len(out) : has_successful_marker(out[i])
    THEN out[CHOOSE i \in 1..Len(out) :
                /\ has_successful_marker(out[i])
                /\ \A j \in (i + 1)..Len(out) : ~has_successful_marker(out[j])].n
    ELSE 0

\* lines 2362-2454: what run_vnstock_installer returns once the inner
\* installer has exited with code rc
installer_result(out, rc) ==
    IF device_limit_exceeded(out) THEN FALSE
    ELSE IF failed_count(out) > 0 THEN FALSE
    ELSE IF rc = 0 \/ success_count(out) > 0 THEN TRUE
    ELSE FALSE


(***************************************************************************)
(* State.                                                                  *)
(***************************************************************************)
VARIABLES
    \* ---- orchestrator (vnstock_cli.py) ----
    cli_pc,            \* the phase run() is about to execute, or "exited"
    exit_code,         \* exit status of the orchestrator process
    is_colab,          \* detect_google_colab()
    is_codespaces,     \* detect_codespaces()
    drive_mounted,     \* /content/drive/MyDrive exists
    language,          \* 'vi' or 'en'
    venv_type,         \* None ("unset"), 'default' or 'system'
    cli_messages,      \* what the orchestrator has told the user
    interrupted,       \* a KeyboardInterrupt was delivered
    api_key_given,     \* get_api_key returned a key
    backup_done,       \* a backup to the Drive was attempted
    \* ---- inner installer (vnstock-installer.py) ----
    inst_pc,           \* position in main(), "idle" or "exited"
    inst_rc,           \* exit status of the inner installer
    stdout,            \* its captured output
    reg_responses,     \* answers to the device-register calls made so far
    vnstock_newly_installed,
    available_packages,
    selected_packages,
    installation_results,
    delays,            \* number of time.sleep(3) calls of the install loop
    summary_saved,     \* the final _save_installation_info call was made
    dp,                \* the last download_package call
    dp_in,             \* the answers of the outside in the last download_package call
    \* ---- one function applied on its own ----
    call,              \* the function and the inputs it is applied to
    result             \* what it returned and did

cliVars == << cli_pc, exit_code, is_colab, is_codespaces, drive_mounted,
              language, venv_type, cli_messages, interrupted, api_key_given,
              backup_done >>

envVars == << is_colab, is_codespaces, drive_mounted, language >>

instVars == << inst_pc, inst_rc, stdout, reg_responses,
               vnstock_newly_installed, available_packages,
               selected_packages, installation_results, delays,
               summary_saved, dp >>

queueVars == << available_packages, selected_packages, installation_results,
                delays, dp >>

\* the variables of a function applied on its own
unitVars == << call, result >>

vars == << cliVars, instVars, dp_in, unitVars >>

\* no function is applied on its own
NoCall == [fn |-> "none"]

NoResult == [done |-> FALSE]

NoInput == [set |-> FALSE, name |-> "none",
            o |-> Outcome("ok", "ok", "ok", "ok", DefaultArchive, "rc0", FALSE, "ok")]

\* the inner installer before it is started
InstInit ==
    /\ inst_pc = "idle"
    /\ inst_rc = NotExited
    /\ stdout = << >>
    /\ reg_responses = << >>
    /\ vnstock_newly_installed = FALSE
    /\ available_packages = << >>
    /\ selected_packages = << >>
    /\ installation_results = << >>
    /\ delays = 0
    /\ summary_saved = FALSE
    /\ dp = dp_start("none")

\* vnstock_cli.main(): the installer object is constructed, run() not called
Init ==
    /\ cli_pc = "mount"
    /\ exit_code = NotExited
    /\ is_colab \in BOOLEAN
    /\ is_codespaces \in BOOLEAN
    /\ drive_mounted \in (IF is_colab THEN BOOLEAN ELSE {FALSE})
    /\ language \in {"vi", "en"}
    /\ venv_type = "unset"
    /\ cli_messages = {}
    /\ interrupted = FALSE
    /\ api_key_given = FALSE
    /\ backup_done = FALSE
    /\ InstInit
    /\ dp_in = NoInput
    /\ call = NoCall
    /\ result = NoResult

(***************************************************************************)
(* Orchestrator: VNStockCLIInstaller.run and vnstock_cli.main.             *)
(***************************************************************************)
\* main(): run() returned ok: sys.exit(0 if success else 1)
cli_exit(ok, said) ==
    /\ cli_pc' = "exited"
    /\ exit_code' = (IF ok THEN EXIT_SUCCESS ELSE EXIT_FAILURE)
    /\ cli_messages' = cli_messages \cup said

cli_goto(phase) ==
    /\ cli_pc' = phase
    /\ UNCHANGED << exit_code, cli_messages >>

\* a faulty variant: a missing Drive does not stop the run
mount_google_drive_optional ==
    /\ cli_pc = "mount"
    /\ cli_goto("detect_python")
    /\ UNCHANGED << envVars, venv_type, interrupted, api_key_given,
                    backup_done, instVars, dp_in, unitVars >>

\* run() lines 2556-2561 with mount_google_drive (873-918)
mount_google_drive ==
    /\ cli_pc = "mount"
    /\ IF is_colab /\ ~drive_mounted
       THEN cli_exit(FALSE, {"cannot_proceed_drive"})
       ELSE cli_goto("detect_python")
    /\ UNCHANGED << envVars, venv_type, interrupted, api_key_given,
                    backup_done, instVars, dp_in, unitVars >>

\* run() lines 2563-2568: detect_python_versions, select_python_version
detect_python_versions ==
    /\ cli_pc = "detect_python"
    /\ \E found \in BOOLEAN :
         IF found THEN cli_goto("select_venv")
         ELSE cli_exit(FALSE, {"no_python_found"})
    /\ UNCHANGED << envVars, venv_type, interrupted, api_key_given,
                    backup_done, instVars, dp_in, unitVars >>

\* lines 1320-1398
select_venv_configuration ==
    /\ cli_pc = "select_venv"
    /\ IF is_colab \/ is_codespaces
       THEN venv_type' = "system"
       ELSE venv_type' \in {"default", "system"}
    /\ cli_goto("create_venv")
    /\ UNCHANGED << envVars, interrupted, api_key_given, backup_done,
                    instVars, dp_in, unitVars >>

\* run() lines 2574-2577 with create_virtual_environment (1413-1472)
create_virtual_environment ==
    /\ cli_pc = "create_venv"
    /\ IF is_colab \/ venv_type = "system"
       THEN cli_goto("install_deps")
       ELSE \E outcome \in {"healthy", "rmtree_failed", "uv_failed",
                            "created", "create_failed"} :
              IF outcome \in {"healthy", "created"}
              THEN cli_goto("install_deps")
              ELSE cli_exit(FALSE, {"failed_create_venv"})
    /\ UNCHANGED << envVars, venv_type, interrupted, api_key_given,
                    backup_done, instVars, dp_in, unitVars >>

\* run() lines 2588-2594: install_dependencies (1615-1797) and
\* install_critical_dependencies (1956-2063, which always returns True)
install_dependencies ==
    /\ cli_pc = "install_deps"
    /\ \E outcome \in {"uv_failed", "nothing_missing", "installed",
                       "warnings", "timeout", "exception"} :
         IF outcome \in {"nothing_missing", "installed", "warnings"}
         THEN cli_goto("get_api_key")
         ELSE cli_exit(FALSE, {"failed_install_deps"})
    /\ UNCHANGED << envVars, venv_type, interrupted, api_key_given,
                    backup_done, instVars, dp_in, unitVars >>

\* run() line 2597 with get_api_key (2065-2158)
get_api_key ==
    /\ cli_pc = "get_api_key"
    /\ api_key_given' \in BOOLEAN
    /\ cli_goto("run_installer")
    /\ UNCHANGED << envVars, venv_type, interrupted, backup_done,
                    instVars, dp_in, unitVars >>

\* run_vnstock_installer lines 2286-2357: find the script and start it
start_installer ==
    /\ cli_pc = "run_installer"
    /\ \E outcome \in {"started", "not_found", "popen_error"} :
         IF outcome = "started"
         THEN /\ cli_goto("wait_installer")
              /\ inst_pc' = "check_python"
         ELSE /\ cli_exit(FALSE, {"installer_failed"})
              /\ UNCHANGED inst_pc
    /\ UNCHANGED << envVars, venv_type, interrupted, api_key_given,
                    backup_done, inst_rc, stdout, reg_responses,
                    vnstock_newly_installed, queueVars, summary_saved, dp_in, unitVars >>

\* lines 2359 and 2456-2459: communicate(timeout=600) expires
installer_timeout ==
    /\ cli_pc = "wait_installer"
    /\ inst_pc # "exited"
    /\ inst_pc' = "exited"
    /\ inst_rc' = EXIT_FAILURE
    /\ cli_exit(FALSE, {"installer_timeout"})
    /\ UNCHANGED << envVars, venv_type, interrupted, api_key_given,
                    backup_done, stdout, reg_responses,
                    vnstock_newly_installed, queueVars, summary_saved, dp_in, unitVars >>

\* lines 2361-2454 and run() lines 2600-2601
parse_installer_output ==
    /\ cli_pc = "wait_installer"
    /\ inst_pc = "exited"
    /\ IF installer_result(stdout, inst_rc)
       THEN /\ cli_pc' = "backup"
            /\ cli_messages' = cli_messages \cup {"installed_successfully"}
            /\ UNCHANGED exit_code
       ELSE cli_exit(FALSE,
                IF device_limit_exceeded(stdout)
                THEN {"remove_unused_devices"}
                ELSE {"installer_failed"})
    /\ UNCHANGED << envVars, venv_type, interrupted, api_key_given,
                    backup_done, instVars, dp_in, unitVars >>

\* run() lines 2603-2637: copy the new packages and the config to the Drive
\* (a timeout of the site-packages lookup at lines 1872-1878 or a failed
\* mkdir at line 1890 is not caught: main() lines 2750-2752 end with 1)
backup_to_drive ==
    /\ cli_pc = "backup"
    /\ \E raised \in BOOLEAN :
         IF is_colab /\ raised
         THEN /\ backup_done' = FALSE
              /\ cli_exit(FALSE, {"unexpected_error"})
         ELSE /\ backup_done' = is_colab
              /\ cli_goto("validate")
    /\ UNCHANGED << envVars, venv_type, interrupted, api_key_given,
                    instVars, dp_in, unitVars >>

\* run() lines 2639-2646 with validate_installation (2160-2201)
validate_installation ==
    /\ cli_pc = "validate"
    /\ \E missing_core \in BOOLEAN :
         IF missing_core THEN cli_exit(FALSE, {"install_incomplete"})
         ELSE cli_exit(TRUE, {"usage_instructions"})
    /\ UNCHANGED << envVars, venv_type, interrupted, api_key_given,
                    backup_done, instVars, dp_in, unitVars >>

\* vnstock_cli.main() lines 2747-2749, and for the inner installer, which
\* shares the terminal, __main__ lines 1669-1672
keyboard_interrupt ==
    /\ cli_pc # "exited"
    /\ interrupted' = TRUE
    /\ cli_exit(FALSE, {"cancelled"})
    /\ IF inst_pc \notin {"idle", "exited"}
       THEN inst_pc' = "exited" /\ inst_rc' = EXIT_CANCELLED
       ELSE UNCHANGED << inst_pc, inst_rc >>
    /\ UNCHANGED << envVars, venv_type, api_key_given, backup_done, stdout,
                    reg_responses, vnstock_newly_installed, queueVars,
                    summary_saved, dp_in, unitVars >>


(***************************************************************************)
(* Inner installer: vnstock-installer.py main().                           *)
(***************************************************************************)
inst_running(pos) == cli_pc = "wait_installer" /\ inst_pc = pos

\* sys.exit(code), or an exception that reaches __main__ (lines 1666-1683)
inst_exit(code) ==
    /\ inst_pc' = "exited"
    /\ inst_rc' = code

inst_goto(pos) ==
    /\ inst_pc' = pos
    /\ UNCHANGED inst_rc

\* main() lines 1369-1380: check_python_version, setup_virtual_environment
inst_check_python ==
    /\ inst_running("check_python")
    /\ \E supported \in BOOLEAN :
         IF supported THEN inst_goto("api_key") ELSE inst_exit(EXIT_FAILURE)
    /\ UNCHANGED << cliVars, stdout, reg_responses, vnstock_newly_installed,
                    queueVars, summary_saved, dp_in, unitVars >>

\* main() lines 1382-1400: the key comes from VNSTOCK_API_KEY, else input()
inst_get_api_key ==
    /\ inst_running("api_key")
    /\ IF api_key_given
       THEN inst_goto("critical")
       ELSE \E typed \in {"eof", "empty", "key"} :
              IF typed = "key" THEN inst_goto("critical")
              ELSE inst_exit(EXIT_FAILURE)
    /\ UNCHANGED << cliVars, stdout, reg_responses, vnstock_newly_installed,
                    queueVars, summary_saved, dp_in, unitVars >>

\* main() lines 1402-1420: ensure_critical_packages, then the license
\* manager, whose constructor raises ImportError without vnai
inst_ensure_critical ==
    /\ inst_running("critical")
    /\ \E outcome \in {"ready", "install_failed", "vnai_missing"} :
         IF outcome = "ready" THEN inst_goto("register")
         ELSE inst_exit(EXIT_FAILURE)
    /\ UNCHANGED << cliVars, stdout, reg_responses, vnstock_newly_installed,
                    queueVars, summary_saved, dp_in, unitVars >>

\* what main() prints after a register_device call (lines 1426-1430 and
\* 1496-1498): "<reg_failed>: <message>" when it failed
registration_lines(res) ==
    IF res.ok THEN << >> ELSE << Line("reg_failed", res.message, 0) >>

\* main() lines 1422-1438: register; a failure is reported and the
\* installation goes on
inst_register ==
    /\ inst_running("register")
    /\ \E a \in RunRegAnswers :
         /\ reg_responses' = Append(reg_responses, a)
         /\ stdout' = stdout \o registration_lines(register_device(a))
    /\ inst_goto("core")
    /\ UNCHANGED << cliVars, vnstock_newly_installed, queueVars,
                    summary_saved, dp_in, unitVars >>

\* what main() prints about the core (lines 1458, 1477-1485)
core_lines(outcome) ==
    IF outcome = "present" THEN << Line("core", "available", 0) >>
    ELSE IF outcome = "installed" THEN << Line("core", "installed", 0) >>
    ELSE IF outcome = "install_failed"
    THEN << Line("core", "install_failed", 0) >>
    ELSE << >>

\* main() lines 1440-1488: import vnstock, install it when missing; a
\* timeout of the install is not caught in main()
inst_ensure_core ==
    /\ inst_running("core")
    /\ \E outcome \in {"present", "installed", "install_failed", "timeout"} :
         /\ vnstock_newly_installed' = (outcome = "installed")
         /\ stdout' = stdout \o core_lines(outcome)
         /\ IF outcome = "timeout" THEN inst_exit(EXIT_FAILURE)
            ELSE inst_goto("reregister")
    /\ UNCHANGED << cliVars, reg_responses, queueVars,
                    summary_saved, dp_in, unitVars >>

\* a faulty variant: the device is registered again in every run
inst_reregister_always ==
    /\ inst_running("reregister")
    /\ \E a \in RunRegAnswers :
         /\ reg_responses' = Append(reg_responses, a)
         /\ stdout' = stdout \o registration_lines(register_device(a))
    /\ inst_goto("list")
    /\ UNCHANGED << cliVars, vnstock_newly_installed, queueVars,
                    summary_saved, dp_in, unitVars >>

\* main() lines 1490-1501: register again after a fresh core install; a
\* failure is reported and the installation goes on
inst_reregister ==
    /\ inst_running("reregister")
    /\ IF vnstock_newly_installed
       THEN \E a \in RunRegAnswers :
              /\ reg_responses' = Append(reg_responses, a)
              /\ stdout' = stdout \o registration_lines(register_device(a))
       ELSE UNCHANGED << reg_responses, stdout >>
    /\ inst_goto("list")
    /\ UNCHANGED << cliVars, vnstock_newly_installed, queueVars,
                    summary_saved, dp_in, unitVars >>

\* main() lines 1503-1523: list_available_packages
inst_list_packages ==
    /\ inst_running("list")
    /\ \E listed \in BOOLEAN, pkgs \in SeqsUpTo(QueueNames, MaxQueue) :
         IF listed /\ pkgs # << >>
         THEN /\ available_packages' = pkgs
              /\ inst_goto("sort")
         ELSE /\ UNCHANGED available_packages
              /\ inst_exit(EXIT_FAILURE)
    /\ UNCHANGED << cliVars, stdout, reg_responses, vnstock_newly_installed,
                    selected_packages, installation_results, delays, dp,
                    summary_saved, dp_in, unitVars >>

\* main() lines 1525-1545
sort_packages ==
    /\ inst_running("sort")
    /\ selected_packages' = sorted_by_priority(available_packages)
    /\ inst_goto("install")
    /\ UNCHANGED << cliVars, stdout, reg_responses, vnstock_newly_installed,
                    available_packages, installation_results, delays, dp,
                    summary_saved, dp_in, unitVars >>

\* an entry of installation_results: (package_name, success, message)
Result(r) == [name |-> r.name, success |-> r.success, message |-> r.message]

\* a faulty variant: after a failed attempt the first artifact is tried again
install_next_package_again ==
    /\ inst_running("install")
    /\ Len(installation_results) < Len(selected_packages)
    /\ LET pkg == IF installation_results # << >>
                     /\ ~installation_results[Len(installation_results)].success
                  THEN selected_packages[1]
                  ELSE selected_packages[Len(installation_results) + 1] IN
       \E o \in QueueOutcomes :
         LET r == download_package(pkg, o) IN
         /\ dp' = r
         /\ dp_in' = [set |-> TRUE, name |-> pkg, o |-> o]
         /\ installation_results' = Append(installation_results, Result(r))
         /\ delays' = IF pkg # selected_packages[Len(selected_packages)]
                      THEN delays + 1 ELSE delays
    /\ UNCHANGED << cliVars, inst_pc, inst_rc, stdout, reg_responses,
                    vnstock_newly_installed, available_packages,
                    selected_packages, summary_saved, unitVars >>

\* main() lines 1623-1640: one iteration of the install loop
install_next_package ==
    /\ inst_running("install")
    /\ Len(installation_results) < Len(selected_packages)
    /\ LET pkg == selected_packages[Len(installation_results) + 1] IN
       \E o \in QueueOutcomes :
         LET r == download_package(pkg, o) IN
         /\ dp' = r
         /\ dp_in' = [set |-> TRUE, name |-> pkg, o |-> o]
         /\ installation_results' = Append(installation_results, Result(r))
         /\ delays' = IF pkg # selected_packages[Len(selected_packages)]
                      THEN delays + 1 ELSE delays
    /\ UNCHANGED << cliVars, inst_pc, inst_rc, stdout, reg_responses,
                    vnstock_newly_installed, available_packages,
                    selected_packages, summary_saved, unitVars >>

\* main() lines 1642-1648: print_installation_summary
print_installation_summary ==
    /\ inst_running("install")
    /\ Len(installation_results) = Len(selected_packages)
    /\ stdout' = stdout \o summary_lines(installation_results, language)
    /\ inst_goto("save")
    /\ UNCHANGED << cliVars, reg_responses, vnstock_newly_installed,
                    queueVars, summary_saved, dp_in, unitVars >>

\* a faulty variant: the record is written while artifacts are still to be
\* installed
save_installation_info_early ==
    /\ inst_running("install")
    /\ summary_saved' = TRUE
    /\ inst_exit(EXIT_SUCCESS)
    /\ UNCHANGED << cliVars, stdout, reg_responses, vnstock_newly_installed,
                    queueVars, dp_in, unitVars >>

\* main() lines 1650-1663: the final record write, then a normal return
save_installation_info ==
    /\ inst_running("save")
    /\ summary_saved' = TRUE
    /\ inst_exit(EXIT_SUCCESS)
    /\ UNCHANGED << cliVars, stdout, reg_responses, vnstock_newly_installed,
                    queueVars, dp_in, unitVars >>

(***************************************************************************)
(* Specifications.                                                         *)
(***************************************************************************)
\* a full run of the orchestrator
Next ==
    \/ mount_google_drive
    \/ detect_python_versions
    \/ select_venv_configuration
    \/ create_virtual_environment
    \/ install_dependencies
    \/ get_api_key
    \/ start_installer
    \/ installer_timeout
    \/ parse_installer_output
    \/ backup_to_drive
    \/ validate_installation
    \/ keyboard_interrupt
    \/ inst_check_python
    \/ inst_get_api_key
    \/ inst_ensure_critical
    \/ inst_register
    \/ inst_ensure_core
    \/ inst_reregister
    \/ inst_list_packages
    \/ sort_packages
    \/ install_next_package
    \/ print_installation_summary
    \/ save_installation_info

Spec == Init /\ [][Next]_vars

\* the ordering step on its own, for every list up to MaxList
InitSort ==
    /\ cli_pc = "wait_installer"
    /\ exit_code = NotExited
    /\ is_colab = FALSE
    /\ is_codespaces = FALSE
    /\ drive_mounted = FALSE
    /\ language = "vi"
    /\ venv_type = "system"
    /\ cli_messages = {}
    /\ interrupted = FALSE
    /\ api_key_given = TRUE
    /\ backup_done = FALSE
    /\ inst_pc = "sort"
    /\ inst_rc = NotExited
    /\ stdout = << >>
    /\ reg_responses = << "200" >>
    /\ vnstock_newly_installed = FALSE
    /\ available_packages \in SeqsUpTo(SortNames, MaxList)
    /\ selected_packages = << >>
    /\ installation_results = << >>
    /\ delays = 0
    /\ summary_saved = FALSE
    /\ dp = dp_start("none")
    /\ dp_in = NoInput
    /\ call = NoCall
    /\ result = NoResult

NextSort == sort_packages

SpecSort == InitSort /\ [][NextSort]_vars

\* one download_package call on its own, for every answer of the outside
call_download_package ==
    /\ dp_in.set
    /\ ~dp.returned
    /\ dp' = download_package(dp_in.name, dp_in.o)
    /\ UNCHANGED << cliVars, inst_pc, inst_rc, stdout, reg_responses,
                    vnstock_newly_installed, available_packages,
                    selected_packages, installation_results, delays,
                    summary_saved, dp_in, unitVars >>

InitDownload ==
    /\ cli_pc = "wait_installer"
    /\ exit_code = NotExited
    /\ is_colab = FALSE
    /\ is_codespaces = FALSE
    /\ drive_mounted = FALSE
    /\ language = "vi"
    /\ venv_type = "system"
    /\ cli_messages = {}
    /\ interrupted = FALSE
    /\ api_key_given = TRUE
    /\ backup_done = FALSE
    /\ inst_pc = "install"
    /\ inst_rc = NotExited
    /\ stdout = << >>
    /\ reg_responses = << "200" >>
    /\ vnstock_newly_installed = FALSE
    /\ available_packages = << >>
    /\ selected_packages = << >>
    /\ installation_results = << >>
    /\ delays = 0
    /\ summary_saved = FALSE
    /\ dp = dp_start("none")
    /\ \E n \in QueueNames, o \in PkgOutcomes :
         dp_in = [set |-> TRUE, name |-> n, o |-> o]
    /\ call = NoCall
    /\ result = NoResult

NextDownload == call_download_package

SpecDownload == InitDownload /\ [][NextDownload]_vars

(***************************************************************************)
(* Dependency list: vnstock_cli.py fetch_requirements_from_url,            *)
(* check_packages_installed and the ordering in install_dependencies.      *)
(* Requirement lines are strings; the string tests the code applies to     *)
(* them are tabulated for the lines of the model.                          *)
(***************************************************************************)
\* vnstock_cli.py lines 50-59
REQUIRED_DEPENDENCIES_FALLBACK ==
    << "typing_extensions>=4.6.0", "vnstock>=3.4.0", "vnai", "vnii",
       "requests", "pandas", "numpy" >>

\* vnstock_cli.py lines 62-68
COLAB_REQUIREMENTS_FALLBACK ==
    << "typing_extensions>=4.6.0", "vnstock>=3.4.1", "vnai", "vnii" >>

\* lines a served manifest may hold
ManifestLines ==
    {"# comment", "--extra-index-url https://vnstocks.com/api/simple",
     "numpy", "vnai", "vnstock>=3.4.0", "typing_extensions>=4.6.0"}

\* answers of the GET of the manifest
FetchAnswers == {"ok", "non200", "timeout", "exception"}

\* line 851: line and not line.startswith('#') and not line.startswith('--')
is_requirement_line(line) ==
    line \notin {"", "# comment",
                 "--extra-index-url https://vnstocks.com/api/simple"}

\* line 855: 'typing' in r.lower() and 'extensions' in r.lower()
is_typing_extensions(r) == r = "typing_extensions>=4.6.0"

\* lines 1541-1544: the package name of a requirement, without its version
package_name_of(req) ==
    IF req = "typing_extensions>=4.6.0" THEN "typing_extensions"
    ELSE IF req \in {"vnstock>=3.4.0", "vnstock>=3.4.1"} THEN "vnstock"
    ELSE req

\* the names check_packages_installed may find installed
PackageNames ==
    {"typing_extensions", "vnstock", "vnai", "vnii", "requests", "pandas",
     "numpy"}

\* line 1677: missing_pkg in req (no line of the model contains another)
contains(req, missing_pkg) == req = missing_pkg

\* line 1687: one of 'vnai', 'vnii', 'typing-extensions',
\* 'typing_extensions' is in r.lower()
is_critical_requirement(r) ==
    r \in {"vnai", "vnii", "typing_extensions>=4.6.0"}

\* line 1692: 'vnstock' in r.lower()
is_core_requirement(r) == r \in {"vnstock>=3.4.0", "vnstock>=3.4.1"}

\* lines 834-871
fetch_requirements_from_url(answer, manifest, colab) ==
    IF answer = "ok"
    THEN LET requirements == SelectSeq(manifest, is_requirement_line)
             not_typing(r) == ~is_typing_extensions(r)
             typing_ext_reqs == SelectSeq(requirements, is_typing_extensions)
             other_reqs == SelectSeq(requirements, not_typing)
         IN  (IF typing_ext_reqs = << >> THEN << "typing_extensions>=4.6.0" >>
              ELSE typing_ext_reqs) \o other_reqs
    ELSE IF colab THEN COLAB_REQUIREMENTS_FALLBACK
         ELSE REQUIRED_DEPENDENCIES_FALLBACK

\* lines 1511-1613: the requirements whose package is not installed
check_packages_installed(package_list, installed) ==
    LET is_missing(req) == package_name_of(req) \notin installed
    IN  SelectSeq(package_list, is_missing)

\* a faulty variant: the filtered list is used in the order of the manifest
sorted_requirements_unsorted(requirements_list, missing) ==
    LET wanted(req) == \E i \in 1..Len(missing) : contains(req, missing[i])
    IN  SelectSeq(requirements_list, wanted)

\* lines 1675-1702: filtered_list, then critical + core + other
sorted_requirements(requirements_list, missing) ==
    LET wanted(req) == \E i \in 1..Len(missing) : contains(req, missing[i])
        filtered_list == SelectSeq(requirements_list, wanted)
        is_core(r) == is_core_requirement(r) /\ ~is_critical_requirement(r)
        is_other(r) == ~is_critical_requirement(r) /\ ~is_core(r)
    IN  SelectSeq(filtered_list, is_critical_requirement)
          \o SelectSeq(filtered_list, is_core)
          \o SelectSeq(filtered_list, is_other)

\* install_dependencies lines 1640-1702 on its own: the list it installs
build_install_list ==
    /\ call.fn = "install_dependencies"
    /\ ~result.done
    /\ LET requirements_list ==
               fetch_requirements_from_url(call.fetch, call.manifest, call.colab)
           missing == check_packages_installed(requirements_list, call.installed)
       IN  result' = [done |-> TRUE,
                      requirements_list |-> requirements_list,
                      missing |-> missing,
                      nothing_to_install |-> (missing = << >>),
                      install_list |->
                          IF missing = << >> THEN << >>
                          ELSE sorted_requirements(requirements_list, missing)]
    /\ UNCHANGED << cliVars, instVars, dp_in, call >>

\* the variables of a full run while one function is applied on its own
RunUnused ==
    /\ cli_pc = "mount"
    /\ exit_code = NotExited
    /\ is_colab = FALSE
    /\ is_codespaces = FALSE
    /\ drive_mounted = FALSE
    /\ language = "vi"
    /\ venv_type = "unset"
    /\ cli_messages = {}
    /\ interrupted = FALSE
    /\ api_key_given = FALSE
    /\ backup_done = FALSE
    /\ InstInit
    /\ dp_in = NoInput

InitDeps ==
    /\ RunUnused
    /\ \E answer \in FetchAnswers, colab \in BOOLEAN,
          installed \in SUBSET PackageNames,
          manifest \in SeqsUpTo(ManifestLines, MaxManifest) :
         /\ (answer # "ok" => manifest = << >>)
         /\ call = [fn |-> "install_dependencies", fetch |-> answer,
                    manifest |-> manifest, colab |-> colab,
                    installed |-> installed]
    /\ result = NoResult

NextDeps == build_install_list

SpecDeps == InitDeps /\ [][NextDeps]_vars

(***************************************************************************)
(* Device identifiers: get_hardware_uuid of both files and                 *)
(* generate_device_id of vnstock_cli.py.  An identifier is its text and,   *)
(* when it is built from time.time(), the second it was built in.          *)
(***************************************************************************)
Id(text, time) == [text |-> text, time |-> time]

\* platform.system()
Systems == {"Windows", "Darwin", "Linux"}

\* what the source of the identifier (wmic, system_profiler,
\* /etc/machine-id) gives: a value, an empty value, no value at all, or an
\* error
UuidAnswers == {"value", "empty", "missing", "error"}

\* vnstock-installer.py lines 213-270
installer_get_hardware_uuid(system, answer, now) ==
    IF answer = "error" \/ (system = "Windows" /\ answer = "missing")
    THEN Id("system-node-", now)
    ELSE IF answer = "value" THEN Id("hardware-uuid", 0)
    ELSE IF system = "Windows" THEN Id("WIN-node-user", 0)
    ELSE IF system = "Darwin"
         THEN (IF answer = "empty" THEN Id("", 0) ELSE Id("MAC-node-user", 0))
    ELSE (IF answer = "empty" THEN Id("", 0) ELSE Id("LNX-node-user", 0))

\* vnstock_cli.py lines 141-181
cli_get_hardware_uuid(system, answer) ==
    IF answer = "value" THEN Id("hardware-uuid", 0)
    ELSE IF system = "Darwin" /\ answer = "empty" THEN Id("UUID:", 0)
    ELSE IF system = "Linux" /\ answer = "empty" THEN Id("", 0)
    ELSE Id("uuid5-of-hostname", 0)

get_hardware_uuid(file, system, answer, now) ==
    IF file = "installer" THEN installer_get_hardware_uuid(system, answer, now)
    ELSE cli_get_hardware_uuid(system, answer)

\* answers of "from vnai.scope.profile import inspector;
\* inspector.fingerprint()" run in the process
DirectAnswers == {"id", "empty", "ImportError", "other_error"}

\* answers of the same run by the interpreter of the venv
SubprocessAnswers == {"id", "empty", "rc1", "no_python", "exception"}

\* vnstock_cli.py lines 199-288
generate_device_id(direct, venv_path, sub, system, answer) ==
    LET device_id ==
            IF direct = "id" THEN "fingerprint"
            ELSE IF direct = "ImportError" /\ venv_path /\ sub = "id"
                 THEN "fingerprint"
            ELSE ""
    IN  IF direct = "other_error" \/ device_id = ""
        THEN [done |-> TRUE, raised |-> TRUE, device_id |-> "",
              hardware_uuid |-> Id("", 0)]
        ELSE [done |-> TRUE, raised |-> FALSE, device_id |-> device_id,
              hardware_uuid |-> cli_get_hardware_uuid(system, answer)]

\* one more call of get_hardware_uuid in the same process
call_get_hardware_uuid ==
    /\ call.fn = "get_hardware_uuid"
    /\ Len(result.values) < 2
    /\ result' = [result EXCEPT
                    !.done = TRUE,
                    !.values = Append(@,
                        get_hardware_uuid(call.file, call.system, call.answer,
                                          result.now))]
    /\ UNCHANGED << cliVars, instVars, dp_in, call >>

\* time.time() moves on to the next second
clock_tick ==
    /\ call.fn = "get_hardware_uuid"
    /\ result.now < 1 + MaxClock
    /\ result' = [result EXCEPT !.now = @ + 1]
    /\ UNCHANGED << cliVars, instVars, dp_in, call >>

call_generate_device_id ==
    /\ call.fn = "generate_device_id"
    /\ ~result.done
    /\ result' = generate_device_id(call.direct, call.venv_path, call.sub,
                                    call.system, call.answer)
    /\ UNCHANGED << cliVars, instVars, dp_in, call >>

InitFingerprint ==
    /\ RunUnused
    /\ \/ /\ \E file \in {"installer", "cli"}, system \in Systems,
                answer \in UuidAnswers :
               call = [fn |-> "get_hardware_uuid", file |-> file,
                       system |-> system, answer |-> answer]
          /\ result = [done |-> FALSE, values |-> << >>, now |-> 1]
       \/ /\ \E direct \in DirectAnswers, venv_path \in BOOLEAN,
                sub \in SubprocessAnswers, system \in Systems,
                answer \in UuidAnswers :
               call = [fn |-> "generate_device_id", direct |-> direct,
                       venv_path |-> venv_path, sub |-> sub,
                       system |-> system, answer |-> answer]
          /\ result = NoResult

NextFingerprint ==
    \/ call_get_hardware_uuid
    \/ clock_tick
    \/ call_generate_device_id

SpecFingerprint == InitFingerprint /\ [][NextFingerprint]_vars

(***************************************************************************)
(* Registration: VnstockLicenseManager.__init__ and register_device, the   *)
(* two calls main() makes, and an entitlement service that keeps one       *)
(* device slot per (device_id, api_key) pair.                              *)
(***************************************************************************)
\* values inspector.fingerprint() may give
Fingerprints == {"fp-a", "fp-b"}

\* how a register request ends: answered by the service, by something in
\* front of it (a 429 without a JSON body or with one that is not an
\* object, a 500), or not at all
Transports == {"service", "429_nojson", "429_notdict", "500", "neterr"}

\* the devices of the account that registered earlier
DeviceNames == << "dev-1", "dev-2", "dev-3", "dev-4" >>

OtherDevices(n) == {DeviceNames[i] : i \in 1..n}

\* a faulty variant: the fingerprint is computed again for each call
registration_payload_recomputed(manager, current_fingerprint) ==
    [api_key |-> manager.api_key, device_id |-> current_fingerprint]

\* lines 497-501, 556-563: the payload holds self.api_key and the
\* self.device_id computed once in __init__
registration_payload(manager, current_fingerprint) ==
    [api_key |-> manager.api_key, device_id |-> manager.device_id]

\* the service: a known pair keeps its slot, a new pair needs a free one
service_register(known, limit, pair) ==
    IF pair \in known \/ Cardinality(known) < limit THEN "200" ELSE "429"

\* one register_device call of main(): lines 1422-1438 or 1490-1501
register_call(transport) ==
    LET pair == registration_payload(call.manager, result.fingerprint)
        answer == IF transport = "service"
                  THEN service_register(result.known, call.limit, pair)
                  ELSE transport
    IN  result' = [result EXCEPT
                     !.done = TRUE,
                     !.sent = Append(@, pair),
                     !.answers = Append(@, answer),
                     !.results = Append(@, register_device(answer)),
                     !.known = IF answer = "200" /\ transport = "service"
                               THEN @ \cup {pair} ELSE @]

\* main() lines 1422-1438: the first registration
register_first ==
    /\ call.fn = "register"
    /\ Len(result.sent) = 0
    /\ \E transport \in Transports : register_call(transport)
    /\ UNCHANGED << cliVars, instVars, dp_in, call >>

\* main() lines 1440-1488: vnstock core is installed; the fingerprint vnai
\* computes from now on may differ
install_core ==
    /\ call.fn = "register"
    /\ Len(result.sent) = 1
    /\ ~result.core_installed
    /\ \E f \in Fingerprints :
         result' = [result EXCEPT !.core_installed = TRUE, !.fingerprint = f]
    /\ UNCHANGED << cliVars, instVars, dp_in, call >>

\* main() lines 1490-1501: the registration after the core install
register_again ==
    /\ call.fn = "register"
    /\ Len(result.sent) = 1
    /\ result.core_installed
    /\ \E transport \in Transports : register_call(transport)
    /\ UNCHANGED << cliVars, instVars, dp_in, call >>

InitRegister ==
    /\ RunUnused
    /\ \E f \in Fingerprints, limit \in 1..MaxDevices :
         \E others \in 0..limit, known_before \in BOOLEAN :
           /\ call = [fn |-> "register",
                      manager |-> [api_key |-> "key", device_id |-> f],
                      limit |-> limit]
           /\ result = [done |-> FALSE, sent |-> << >>, answers |-> << >>,
                        results |-> << >>, core_installed |-> FALSE,
                        fingerprint |-> f,
                        known |-> {[api_key |-> "key", device_id |-> d] :
                                      d \in OtherDevices(others)}
                                  \cup (IF known_before
                                        THEN {[api_key |-> "key", device_id |-> f]}
                                        ELSE {})]

NextRegister ==
    \/ register_first
    \/ install_core
    \/ register_again

SpecRegister == InitRegister /\ [][NextRegister]_vars

(***************************************************************************)
(* The virtual environment: vnstock_cli.py create_virtual_environment and  *)
(* the step of run() that calls it.  The target path is a directory that   *)
(* exists or not and, when it exists, holds the interpreter binary or not. *)
(***************************************************************************)
NoPath == [exists |-> FALSE, binary |-> FALSE]

\* a faulty variant: an existing directory is never taken as healthy
is_venv_healthy_never(kind, path_set, path) ==
    path_set /\ kind = "system"

\* lines 1474-1485: _is_venv_healthy
is_venv_healthy(kind, path_set, path) ==
    IF ~path_set THEN FALSE
    ELSE IF kind = "system" THEN TRUE
    ELSE path.binary

\* lines 1413-1472: create_virtual_environment; ops are the changes it asks
\* of the file system, path the directory afterwards, ret the return value
create_venv(c) ==
    IF c.venv_type = "system"
    THEN [ret |-> TRUE, ops |-> << >>, path |-> c.path, message |-> "system"]
    ELSE IF ~c.path_set
    THEN [ret |-> FALSE, ops |-> << >>, path |-> c.path,
          message |-> "not_configured"]
    ELSE IF c.path.exists /\ is_venv_healthy(c.venv_type, c.path_set, c.path)
    THEN [ret |-> TRUE, ops |-> << >>, path |-> c.path, message |-> "reused"]
    ELSE IF c.path.exists /\ ~c.rmtree_ok
    THEN [ret |-> FALSE, ops |-> << "rmtree" >>, path |-> c.path,
          message |-> "venv_removed_failed"]
    ELSE LET removed == IF c.path.exists THEN << "rmtree" >> ELSE << >> IN
         IF ~c.uv_ok
         THEN [ret |-> FALSE, ops |-> removed, path |-> NoPath,
               message |-> "uv_not_installed"]
         ELSE IF ~c.create_ok
         THEN [ret |-> FALSE, ops |-> removed \o << "uv venv" >>,
               path |-> NoPath, message |-> "create_failed"]
         ELSE [ret |-> TRUE, ops |-> removed \o << "uv venv" >>,
               path |-> [exists |-> TRUE, binary |-> TRUE],
               message |-> "created"]

\* run() lines 2574-2577: the venv step, skipped on Colab
call_create_virtual_environment ==
    /\ call.fn = "create_virtual_environment"
    /\ call.venv_type # "unset"
    /\ ~result.done
    /\ result' = IF call.is_colab
                 THEN [done |-> TRUE, called |-> FALSE, run |-> "continues",
                       ret |-> TRUE, ops |-> << >>, path |-> call.path,
                       message |-> "skipped"]
                 ELSE LET r == create_venv(call) IN
                      [done |-> TRUE, called |-> TRUE,
                       run |-> IF r.ret THEN "continues" ELSE "returns_false",
                       ret |-> r.ret, ops |-> r.ops, path |-> r.path,
                       message |-> r.message]
    /\ UNCHANGED << cliVars, instVars, dp_in, call >>

\* the answers to the menu of select_venv_configuration that end its loop
\* (an empty answer counts as "1"; any other answer asks again)
VenvChoices == {"1", "2", "3"}

\* a faulty variant: Codespaces is treated like any other machine
select_venv_ignoring_codespaces(c, choice) ==
    IF c.is_colab
    THEN [venv_type |-> "system", path_set |-> FALSE,
          message |-> "colab_temp_install"]
    ELSE IF ~c.interactive \/ choice = "1"
    THEN [venv_type |-> "default", path_set |-> TRUE, message |-> "none"]
    ELSE IF choice = "2"
    THEN [venv_type |-> "custom", path_set |-> TRUE, message |-> "none"]
    ELSE [venv_type |-> "system", path_set |-> FALSE, message |-> "none"]

\* lines 1320-1398: select_venv_configuration sets venv_type and venv_path
select_venv(c, choice) ==
    IF c.is_colab
    THEN [venv_type |-> "system", path_set |-> FALSE,
          message |-> "colab_temp_install"]
    ELSE IF c.is_codespaces
    THEN [venv_type |-> "system", path_set |-> FALSE,
          message |-> "codespaces_detected"]
    ELSE IF ~c.interactive \/ choice = "1"
    THEN [venv_type |-> "default", path_set |-> TRUE, message |-> "none"]
    ELSE IF choice = "2"
    THEN [venv_type |-> "custom", path_set |-> TRUE, message |-> "none"]
    ELSE [venv_type |-> "system", path_set |-> FALSE, message |-> "none"]

\* run() lines 2570-2572: the configuration step
call_select_venv_configuration ==
    /\ call.fn = "create_virtual_environment"
    /\ call.venv_type = "unset"
    /\ \E choice \in VenvChoices :
         LET r == select_venv(call, choice) IN
         call' = [call EXCEPT !.venv_type = r.venv_type,
                              !.path_set = r.path_set,
                              !.select_message = r.message]
    /\ UNCHANGED << cliVars, instVars, dp_in, result >>

\* __init__ lines 807-815: nothing is configured, the environment is detected
InitVenv ==
    /\ RunUnused
    /\ \E exists \in BOOLEAN, binary \in BOOLEAN, is_colab_on \in BOOLEAN,
          is_codespaces_on \in BOOLEAN, interactive \in BOOLEAN,
          rmtree_ok \in BOOLEAN, uv_ok \in BOOLEAN, create_ok \in BOOLEAN :
         /\ binary => exists
         /\ call = [fn |-> "create_virtual_environment",
                    venv_type |-> "unset",
                    path_set |-> FALSE,
                    select_message |-> "none",
                    path |-> [exists |-> exists, binary |-> binary],
                    is_colab |-> is_colab_on,
                    is_codespaces |-> is_codespaces_on,
                    interactive |-> interactive,
                    rmtree_ok |-> rmtree_ok, uv_ok |-> uv_ok,
                    create_ok |-> create_ok]
    /\ result = NoResult

NextVenv ==
    \/ call_select_venv_configuration
    \/ call_create_virtual_environment

SpecVenv == InitVenv /\ [][NextVenv]_vars

(***************************************************************************)
(* The package-manager bootstrap: ensure_uv_installed of both files and    *)
(* what its callers do with the answer.                                    *)
(***************************************************************************)
\* how 'uv --version' ends (lines 340-348 / 379-387)
ProbeAnswers == {"ok", "nonzero", "notfound"}

\* how the standalone installer ends (vnstock_cli.py lines 353-371)
StandaloneAnswers == {"ok", "curl_nonzero", "sh_nonzero", "timeout",
                      "exception"}

\* how a 'python -m pip install uv' ends
PipUvAnswers == {"ok", "nonzero", "timeout", "exception"}

UvReturn(ret, tried) == [ret |-> ret, tried |-> tried]

\* vnstock_cli.py lines 335-402: ret is "true", "false" or "raised" (an
\* exception leaves the function), tried the steps that were run
cli_ensure_uv_installed(c) ==
    IF c.probe = "ok" THEN UvReturn("true", << "probe" >>)
    ELSE IF c.standalone = "ok"
    THEN UvReturn("true", << "probe", "standalone" >>)
    ELSE IF c.pip_elevated = "ok"
    THEN UvReturn("true", << "probe", "standalone", "pip_elevated" >>)
    ELSE IF c.pip_elevated \in {"timeout", "exception"}
    THEN UvReturn("false", << "probe", "standalone", "pip_elevated" >>)
    ELSE UvReturn(IF c.pip_plain = "ok" THEN "true"
                  ELSE IF c.pip_plain = "nonzero" THEN "false"
                  ELSE "raised",
                  << "probe", "standalone", "pip_elevated", "pip_plain" >>)

\* vnstock-installer.py lines 371-403
installer_ensure_uv_installed(c) ==
    IF c.probe = "ok" THEN UvReturn("true", << "probe" >>)
    ELSE UvReturn(IF c.pip_plain = "ok" THEN "true" ELSE "false",
                  << "probe", "pip_plain" >>)

ensure_uv_installed(c) ==
    IF c.process = "cli" THEN cli_ensure_uv_installed(c)
    ELSE installer_ensure_uv_installed(c)

\* vnstock-installer.py: ensure_critical_packages (lines 428-483) drops the
\* answer and runs get_uv_command() (lines 88-108), main() stops when it
\* returns False (1403-1410); with the core absent main() drops the answer
\* again and runs 'uv' from PATH (1464-1486), where a missing program ends
\* the run and a non-zero exit is only reported
installer_after_bootstrap(c, ret) ==
    LET uv_cmd_works == ret = "true" \/ c.uv_at_known_path
        critical_ok == c.critical_present \/ (uv_cmd_works /\ c.install_ok)
    IN  IF ~critical_ok THEN "exit_1"
        ELSE IF c.core_present THEN "install_artifacts"
        ELSE IF ret = "true" THEN "install_artifacts"
        ELSE IF c.probe = "notfound" THEN "exit_1"
        ELSE "install_artifacts"

\* vnstock_cli.py install_dependencies lines 1631-1635 and main() lines
\* 2744-2751: False or an exception ends the run with exit code 1
cli_after_bootstrap(c, ret) ==
    IF ret = "true" THEN "continues" ELSE "exit_1"

call_ensure_uv_installed ==
    /\ call.fn = "ensure_uv_installed"
    /\ ~result.done
    /\ LET r == ensure_uv_installed(call) IN
       result' = [done |-> TRUE, ret |-> r.ret, tried |-> r.tried,
                  run |-> "pending"]
    /\ UNCHANGED << cliVars, instVars, dp_in, call >>

after_bootstrap ==
    /\ call.fn = "ensure_uv_installed"
    /\ result.done
    /\ result.run = "pending"
    /\ result' = [result EXCEPT !.run =
                     IF call.process = "cli"
                     THEN cli_after_bootstrap(call, result.ret)
                     ELSE installer_after_bootstrap(call, result.ret)]
    /\ UNCHANGED << cliVars, instVars, dp_in, call >>

\* the inner installer runs the bootstrap only when vnai/vnii or the core
\* cannot be imported
InitUv ==
    /\ RunUnused
    /\ \E process \in {"cli", "installer"}, probe \in ProbeAnswers,
          standalone \in StandaloneAnswers, pip_elevated \in PipUvAnswers,
          pip_plain \in PipUvAnswers, uv_at_known_path \in BOOLEAN,
          critical_present \in BOOLEAN, core_present \in BOOLEAN,
          install_ok \in BOOLEAN :
         /\ process = "cli" =>
              /\ ~uv_at_known_path /\ critical_present
              /\ core_present /\ install_ok
         /\ process = "installer" =>
              /\ standalone = "ok" /\ pip_elevated = "ok"
              /\ ~(critical_present /\ core_present)
              /\ probe = "ok" => ~uv_at_known_path
         /\ call = [fn |-> "ensure_uv_installed", process |-> process,
                    probe |-> probe, standalone |-> standalone,
                    pip_elevated |-> pip_elevated, pip_plain |-> pip_plain,
                    uv_at_known_path |-> uv_at_known_path,
                    critical_present |-> critical_present,
                    core_present |-> core_present, install_ok |-> install_ok]
    /\ result = NoResult

NextUv ==
    \/ call_ensure_uv_installed
    \/ after_bootstrap

SpecUv == InitUv /\ [][NextUv]_vars

(***************************************************************************)
(* The installation record: _save_installation_info of the inner installer *)
(* and save_user_info of the orchestrator, with the code that calls them.  *)
(***************************************************************************)
\* where the record is written: inside register_device after a 200 (line
\* 594), in main() after a failed registration (1432), at the end of main()
\* (1651), and in the orchestrator's get_api_key (vnstock_cli.py 2148)
RecordSites == {"register_200", "registration_failed", "final",
                "cli_get_api_key"}

WebhookAnswers == {"unset", "ok", "http_error", "raises"}

RecordReturn(raised, written, warned) ==
    [raised |-> raised, written |-> written, warned |-> warned]

\* a faulty variant: a failed write of one of the files is not caught
_save_installation_info_unguarded(c) ==
    IF c.python_info = "raises" THEN RecordReturn(FALSE, {}, TRUE)
    ELSE IF c.install_json = "oserror" THEN RecordReturn(TRUE, {}, FALSE)
    ELSE IF c.user_json = "oserror"
    THEN RecordReturn(TRUE, {"user_install.json"}, FALSE)
    ELSE RecordReturn(FALSE, {"user_install.json", "user.json"}, FALSE)

\* vnstock-installer.py lines 626-708: the IP lookup has its own handler
\* (630-637), _send_webhook_notification too (713-733); everything else is
\* inside one try whose handler logs a warning
_save_installation_info(c) ==
    IF c.python_info = "raises" THEN RecordReturn(FALSE, {}, TRUE)
    ELSE IF c.install_json = "oserror" THEN RecordReturn(FALSE, {}, TRUE)
    ELSE IF c.user_json = "oserror"
    THEN RecordReturn(FALSE, {"user_install.json"}, TRUE)
    ELSE RecordReturn(FALSE, {"user_install.json", "user.json"}, FALSE)

\* vnstock_cli.py lines 107-117: save_user_info returns False on any failure
save_user_info(c) ==
    IF c.user_json = "oserror" THEN RecordReturn(FALSE, {}, FALSE)
    ELSE RecordReturn(FALSE, {"user.json"}, FALSE)

\* what the caller does next: register_device returns (True, ...) at line
\* 600, or its handler at 621-624 turns an exception into a failure; main()
\* goes on to the core check (line 1440) or returns (1663), an exception
\* there ends the process with 1 (1666-1683); get_api_key returns the key
\* (vnstock_cli.py 2155)
after_record(site, r) ==
    IF site = "register_200"
    THEN IF r.raised THEN "registration_error" ELSE "registered"
    ELSE IF site = "registration_failed"
    THEN IF r.raised THEN "exit_1" ELSE "core_check"
    ELSE IF site = "final"
    THEN IF r.raised THEN "exit_1" ELSE "exit_0"
    ELSE IF r.raised THEN "exit_1" ELSE "api_key_returned"

write_record ==
    /\ call.fn = "_save_installation_info"
    /\ ~result.done
    /\ LET r == IF call.site = "cli_get_api_key" THEN save_user_info(call)
                ELSE _save_installation_info(call) IN
       result' = [done |-> TRUE, raised |-> r.raised, written |-> r.written,
                  warned |-> r.warned, next |-> "pending"]
    /\ UNCHANGED << cliVars, instVars, dp_in, call >>

continue_after_record ==
    /\ call.fn = "_save_installation_info"
    /\ result.done
    /\ result.next = "pending"
    /\ result' = [result EXCEPT !.next =
                    after_record(call.site,
                                 RecordReturn(result.raised, result.written,
                                              result.warned))]
    /\ UNCHANGED << cliVars, instVars, dp_in, call >>

InitRecord ==
    /\ RunUnused
    /\ \E site \in RecordSites, ip \in {"ok", "fails"},
          python_info \in {"ok", "raises"}, install_json \in {"ok", "oserror"},
          user_json \in {"ok", "oserror"}, webhook \in WebhookAnswers :
         /\ site = "cli_get_api_key" =>
              /\ ip = "ok" /\ python_info = "ok"
              /\ install_json = "ok" /\ webhook = "unset"
         /\ call = [fn |-> "_save_installation_info", site |-> site,
                    ip |-> ip, python_info |-> python_info,
                    install_json |-> install_json, user_json |-> user_json,
                    webhook |-> webhook]
    /\ result = NoResult

NextRecord ==
    \/ write_record
    \/ continue_after_record

SpecRecord == InitRecord /\ [][NextRecord]_vars

(***************************************************************************)
(* Backup to the Drive: run() lines 2579-2637 with                         *)
(* copy_vnstock_packages_to_drive and _get_installed_packages.             *)
(***************************************************************************)
\* the distributions pip can list
Pkgs == {"vnstock_data", "numpy"}

\* how the lookup of site-packages ends (lines 1872-1887)
SiteAnswers == {"ok", "nonzero", "missing_dir", "timeout"}

\* lines 1799-1839: the names 'pip list' gives, or nothing when it fails
get_installed_packages(list_ok, present) == IF list_ok THEN present ELSE {}

\* a faulty variant: everything present at the end is taken as new
newly_installed_packages_all(packages_after_all, packages_before_sponsor) ==
    packages_after_all

\* run() lines 2606-2609
newly_installed_packages(packages_after_all, packages_before_sponsor) ==
    packages_after_all \ packages_before_sponsor

CopyReturn(raised, selected, copied, mkdir) ==
    [raised |-> raised, selected |-> selected, copied |-> copied,
     mkdir |-> mkdir]

\* lines 1841-1954: selected are the packages the copy loop goes through,
\* copied those with a folder of their name whose copy did not fail; the
\* function returns True on every path that returns
copy_vnstock_packages_to_drive(c, newly) ==
    IF ~c.is_colab \/ newly = {} THEN CopyReturn(FALSE, {}, {}, FALSE)
    ELSE IF c.site = "timeout" THEN CopyReturn(TRUE, {}, {}, FALSE)
    ELSE IF c.site \in {"nonzero", "missing_dir"}
    THEN CopyReturn(FALSE, {}, {}, FALSE)
    ELSE IF c.mkdir = "oserror" THEN CopyReturn(TRUE, {}, {}, FALSE)
    ELSE CopyReturn(FALSE, newly, (newly \cap c.folders) \ c.copy_fails,
                    TRUE)

\* run() lines 2556-2601: the Drive check, the snapshot before any install
\* (2579-2586) and the phases up to the inner installer
reach_backup ==
    /\ call.fn = "backup"
    /\ ~result.done
    /\ result' =
         [done |-> TRUE,
          stage |-> IF (call.is_colab /\ ~call.drive_mounted)
                       \/ ~call.installer_ok
                    THEN "ended" ELSE "backup",
          run |-> IF (call.is_colab /\ ~call.drive_mounted)
                     \/ ~call.installer_ok
                  THEN "returns_false" ELSE "running",
          packages_before_sponsor |->
              IF call.is_colab
              THEN get_installed_packages(call.list_before_ok,
                                          call.present_before)
              ELSE {},
          selected |-> {}, copied |-> {}, mkdir |-> FALSE,
          config_copied |-> FALSE]
    /\ UNCHANGED << cliVars, instVars, dp_in, call >>

\* run() lines 2603-2637: the package backup and the config backup
call_copy_vnstock_packages_to_drive ==
    /\ call.fn = "backup"
    /\ result.done
    /\ result.stage = "backup"
    /\ LET newly == newly_installed_packages(
                        get_installed_packages(TRUE, call.present_after),
                        result.packages_before_sponsor)
           r == copy_vnstock_packages_to_drive(call, newly)
       IN  result' = [result EXCEPT
                        !.stage = "backed_up",
                        !.run = IF r.raised THEN "exit_1" ELSE "validate",
                        !.selected = r.selected,
                        !.copied = r.copied,
                        !.mkdir = r.mkdir,
                        !.config_copied = call.is_colab /\ ~r.raised
                                          /\ call.config = "ok"]
    /\ UNCHANGED << cliVars, instVars, dp_in, call >>

InitBackup ==
    /\ RunUnused
    /\ \E is_colab_on \in BOOLEAN, mounted \in BOOLEAN,
          installer_ok \in BOOLEAN, list_before_ok \in BOOLEAN,
          present_before \in SUBSET Pkgs, present_after \in SUBSET Pkgs,
          site \in SiteAnswers, mkdir \in {"ok", "oserror"},
          folders \in SUBSET Pkgs, copy_fails \in SUBSET Pkgs,
          config \in {"ok", "absent", "oserror"} :
         /\ copy_fails \subseteq folders
         /\ folders \subseteq present_after
         /\ call = [fn |-> "backup", is_colab |-> is_colab_on,
                    drive_mounted |-> mounted, installer_ok |-> installer_ok,
                    list_before_ok |-> list_before_ok,
                    present_before |-> present_before,
                    present_after |-> present_after,
                    site |-> site, mkdir |-> mkdir, folders |-> folders,
                    copy_fails |-> copy_fails, config |-> config]
    /\ result = NoResult

NextBackup ==
    \/ reach_backup
    \/ call_copy_vnstock_packages_to_drive

SpecBackup == InitBackup /\ [][NextBackup]_vars

(***************************************************************************)
(* The interpreter each install step targets: the '--python' argument or   *)
(* the program that is started, in the orchestrator and the inner          *)
(* installer it launches.                                                  *)
(***************************************************************************)
\* interpreters of the machine: the one that runs vnstock_cli.py
\* (sys.executable) and the one detect_python_versions selected are among
\* them; "venv" is the interpreter inside venv_path
Interpreters == {"python_a", "python_b"}

\* the steps of a run that install or import, in the order they happen
TargetSteps == << "install_dependencies", "install_critical_dependencies",
                  "ensure_critical_packages", "vnstock_core",
                  "download_package", "validate_installation" >>

\* vnstock_cli.py lines 1719-1728 (install_dependencies) and 2013-2028
\* (install_critical_dependencies): sys.executable unless a venv is used
cli_target_python(c) ==
    IF ~(c.is_colab \/ c.is_codespaces) /\ c.venv_type # "system"
    THEN "venv" ELSE c.running

\* vnstock_cli.py lines 2301-2318 (run_vnstock_installer) and 2203-2223
\* (_check_package_import): the selected interpreter unless a venv is used
cli_py_cmd(c) ==
    IF c.is_colab \/ c.is_codespaces THEN c.selected
    ELSE IF c.venv_type # "system" THEN "venv"
    ELSE c.selected

\* vnstock_cli.py lines 2326-2337: VNSTOCK_VENV_TYPE given to the installer
env_venv_type(c) == IF c.is_colab THEN "system" ELSE c.venv_type

\* vnstock-installer.py lines 273-305: setup_virtual_environment, run by
\* the interpreter cli_py_cmd started
setup_virtual_environment(c) ==
    IF env_venv_type(c) = "system" THEN cli_py_cmd(c) ELSE "venv"

target_of(step, c) ==
    IF step \in {"install_dependencies", "install_critical_dependencies"}
    THEN cli_target_python(c)
    ELSE IF step = "ensure_critical_packages" THEN cli_py_cmd(c)
    ELSE IF step \in {"vnstock_core", "download_package"}
    THEN setup_virtual_environment(c)
    ELSE cli_py_cmd(c)

\* the next step of the run resolves its interpreter
resolve_target ==
    /\ call.fn = "targets"
    /\ Len(result.targets) < Len(TargetSteps)
    /\ result' = [done |-> TRUE,
                  targets |-> Append(result.targets,
                                     target_of(TargetSteps[Len(result.targets) + 1],
                                               call))]
    /\ UNCHANGED << cliVars, instVars, dp_in, call >>

\* select_venv_configuration (1320-1398) has set venv_type
InitTargets ==
    /\ RunUnused
    /\ \E is_colab_on \in BOOLEAN, is_codespaces_on \in BOOLEAN,
          kind \in {"default", "custom", "system"},
          running \in Interpreters, selected \in Interpreters :
         /\ (is_colab_on \/ is_codespaces_on) => kind = "system"
         /\ call = [fn |-> "targets", is_colab |-> is_colab_on,
                    is_codespaces |-> is_codespaces_on, venv_type |-> kind,
                    running |-> running, selected |-> selected]
    /\ result = [done |-> FALSE, targets |-> << >>]

NextTargets == resolve_target

SpecTargets == InitTargets /\ [][NextTargets]_vars

(***************************************************************************)
(* The credential file api_key.json: save_api_key of the orchestrator and  *)
(* save_api_key_to_file of the inner installer.  A file is absent or has   *)
(* a mode; open(path, 'w') creates an absent file with the mode the umask  *)
(* leaves and keeps the mode of an existing one.                           *)
(***************************************************************************)
FileModes == {"0600", "0644"}

\* open(path, 'w') followed by json.dump
open_for_write(mode, umask_mode) ==
    IF mode = "absent" THEN umask_mode ELSE mode

\* vnstock_cli.py lines 92-104: save_api_key writes ~/.vnstock/api_key.json
save_api_key(files, umask_mode, write_ok) ==
    IF write_ok
    THEN [files EXCEPT !.home = open_for_write(files.home, umask_mode)]
    ELSE files

\* vnstock-installer.py lines 184-210: the file is in VNSTOCK_CONFIG_PATH
\* (the Drive on Colab, vnstock_cli.py 2329-2333) or in ~/.vnstock
save_api_key_to_file(files, umask_mode, on_drive, write_ok, chmod_ok) ==
    LET where == IF on_drive THEN "drive" ELSE "home" IN
    IF ~write_ok THEN files
    ELSE IF ~chmod_ok
    THEN [files EXCEPT ![where] = open_for_write(files[where], umask_mode)]
    ELSE [files EXCEPT ![where] = "0600"]

\* get_api_key, vnstock_cli.py lines 2084-2090 and 2124-2126: a key from the
\* command line, the environment or the prompt is saved
cli_saves_api_key ==
    /\ call.fn = "credential"
    /\ result.stage = "start"
    /\ \E write_ok \in BOOLEAN :
         result' = [done |-> TRUE, stage |-> "cli_done",
                    saved |-> call.key_given /\ write_ok,
                    files |-> IF call.key_given
                              THEN save_api_key(result.files, call.umask_mode,
                                                write_ok)
                              ELSE result.files]
    /\ UNCHANGED << cliVars, instVars, dp_in, call >>

\* main() of the inner installer, lines 1382-1400: the key comes from
\* VNSTOCK_API_KEY or the prompt and is saved
installer_saves_api_key ==
    /\ call.fn = "credential"
    /\ result.stage = "cli_done"
    /\ \E write_ok \in BOOLEAN, chmod_ok \in BOOLEAN :
         result' = [result EXCEPT
                      !.stage = "installer_done",
                      !.saved = @ \/ write_ok,
                      !.files = save_api_key_to_file(@, call.umask_mode,
                                                     call.is_colab, write_ok,
                                                     chmod_ok)]
    /\ UNCHANGED << cliVars, instVars, dp_in, call >>

InitCredential ==
    /\ RunUnused
    /\ \E is_colab_on \in BOOLEAN, key_given \in BOOLEAN,
          umask_mode \in FileModes,
          home \in FileModes \cup {"absent"},
          drive \in FileModes \cup {"absent"} :
         /\ ~is_colab_on => drive = "absent"
         /\ call = [fn |-> "credential", is_colab |-> is_colab_on,
                    key_given |-> key_given, umask_mode |-> umask_mode]
         /\ result = [done |-> FALSE, stage |-> "start", saved |-> FALSE,
                      files |-> [home |-> home, drive |-> drive]]

NextCredential ==
    \/ cli_saves_api_key
    \/ installer_saves_api_key

SpecCredential == InitCredential /\ [][NextCredential]_vars

(***************************************************************************)
(* The two installs of install_dependencies (vnstock_cli.py lines          *)
(* 1683-1797) and the step of run() that calls it.                         *)
(***************************************************************************)
\* requirement lines a filtered list may hold
RequirementLines ==
    {"numpy", "vnai", "vnstock>=3.4.0", "typing_extensions>=4.6.0"}

\* how a 'uv pip install' ends
InstallAnswers == {"ok", "nonzero", "timeout", "exception"}

\* lines 1678-1681
critical_packages(filtered_list) ==
    SelectSeq(filtered_list, is_critical_requirement)

\* lines 1683-1687
core_packages(filtered_list) ==
    LET is_core(r) == is_core_requirement(r) /\ ~is_critical_requirement(r)
    IN  SelectSeq(filtered_list, is_core)

\* lines 1689-1693
other_packages(filtered_list) ==
    LET is_other(r) == /\ ~is_critical_requirement(r)
                       /\ ~is_core_requirement(r)
    IN  SelectSeq(filtered_list, is_other)

\* a faulty variant: the second install is given the whole list
remaining_whole_list(filtered_list) == filtered_list

\* line 1750: remaining = core_packages + other_packages
remaining(filtered_list) ==
    core_packages(filtered_list) \o other_packages(filtered_list)

\* a faulty variant: a non-zero exit code of the batch is a failure
returns_after_batch_strict(code) == code = 0

\* lines 1769-1786: the exit code of the batch only chooses the message
returns_after_batch(code) == TRUE

\* lines 1703-1797: invocations are the 'uv pip install' commands run, in
\* order; the answer of the first one is not looked at, a timeout or
\* another exception of either returns False (1788-1797)
install_with_uv(c) ==
    LET critical == critical_packages(c.filtered_list)
        rest == remaining(c.filtered_list)
        first == IF critical = << >> THEN << >>
                 ELSE << [upgrade |-> TRUE, packages |-> critical] >>
        second == IF rest = << >> THEN << >>
                  ELSE << [upgrade |-> FALSE, packages |-> rest] >>
        code == IF rest # << >> /\ c.batch = "nonzero" THEN 1 ELSE 0
    IN  IF critical # << >> /\ c.critical \in {"timeout", "exception"}
        THEN [ret |-> FALSE, invocations |-> first,
              message |-> IF c.critical = "timeout"
                          THEN "Installation timeout"
                          ELSE "Failed to install dependencies"]
        ELSE IF rest # << >> /\ c.batch \in {"timeout", "exception"}
        THEN [ret |-> FALSE, invocations |-> first \o second,
              message |-> IF c.batch = "timeout"
                          THEN "Installation timeout"
                          ELSE "Failed to install dependencies"]
        ELSE [ret |-> returns_after_batch(code),
              invocations |-> first \o second,
              message |-> IF code # 0 THEN "Some packages had warnings"
                          ELSE "Dependencies installed"]

call_install_dependencies ==
    /\ call.fn = "install_with_uv"
    /\ ~result.done
    /\ LET r == install_with_uv(call) IN
       result' = [done |-> TRUE, ret |-> r.ret,
                  invocations |-> r.invocations, message |-> r.message,
                  run |-> "pending"]
    /\ UNCHANGED << cliVars, instVars, dp_in, call >>

\* run() lines 2588-2594
run_after_install_dependencies ==
    /\ call.fn = "install_with_uv"
    /\ result.done
    /\ result.run = "pending"
    /\ result' = [result EXCEPT !.run =
                    IF result.ret THEN "install_critical_dependencies"
                    ELSE "returns_false"]
    /\ UNCHANGED << cliVars, instVars, dp_in, call >>

\* something is missing (lines 1647-1650), so the filtered list is not empty
InitBatch ==
    /\ RunUnused
    /\ \E filtered_list \in SeqsUpTo(RequirementLines, MaxManifest),
          critical \in InstallAnswers, batch \in InstallAnswers :
         /\ filtered_list # << >>
         /\ call = [fn |-> "install_with_uv", filtered_list |-> filtered_list,
                    critical |-> critical, batch |-> batch]
    /\ result = NoResult

NextBatch ==
    \/ call_install_dependencies
    \/ run_after_install_dependencies

SpecBatch == InitBatch /\ [][NextBatch]_vars

(***************************************************************************)
(* Where the API key comes from: get_api_key of the orchestrator           *)
(* (vnstock_cli.py 2084-2158), the environment it hands to the inner       *)
(* installer (2322-2343) and main() of the inner installer                 *)
(* (vnstock-installer.py 1382-1416).                                       *)
(***************************************************************************)
\* texts a key can be: empty, blanks only, or a key
KeyTexts == {"", "  ", "key"}

\* str.strip()
strip(text) == IF text = "  " THEN "" ELSE text

\* truth value of a Python str or None ("none", "unset")
truthy(text) == text \notin {"none", "unset", ""}

\* vnstock_cli.py lines 2084-2158: provided_api_key or the environment
\* variable, else the stripped answer to the prompt of an interactive run,
\* else None
get_api_key_returns(c) ==
    IF truthy(c.flag) THEN c.flag
    ELSE IF truthy(c.env) THEN c.env
    ELSE IF ~c.interactive THEN "none"
    ELSE IF truthy(strip(c.cli_typed)) THEN strip(c.cli_typed)
    ELSE "none"

\* vnstock_cli.py lines 2322 and 2342-2343: the environment is copied and
\* VNSTOCK_API_KEY is set when get_api_key returned a key
installer_env_key(c, api_key) ==
    IF truthy(api_key) THEN api_key ELSE c.env

\* a faulty variant: the answer to the prompt is not checked
installer_api_key_unchecked(c, env_key) ==
    IF truthy(env_key) THEN [exit |-> FALSE, api_key |-> env_key]
    ELSE IF c.gui_mode THEN [exit |-> TRUE, api_key |-> "none"]
    ELSE IF c.inst_typed = "eof" THEN [exit |-> TRUE, api_key |-> "none"]
    ELSE [exit |-> FALSE, api_key |-> strip(c.inst_typed)]

\* vnstock-installer.py lines 1382-1396: the environment variable, else the
\* stripped answer to input(); sys.exit(1) in GUI mode, at end of input
\* and when the key is still empty
installer_api_key(c, env_key) ==
    IF truthy(env_key) THEN [exit |-> FALSE, api_key |-> env_key]
    ELSE IF c.gui_mode THEN [exit |-> TRUE, api_key |-> "none"]
    ELSE IF c.inst_typed = "eof" THEN [exit |-> TRUE, api_key |-> "none"]
    ELSE IF ~truthy(strip(c.inst_typed)) THEN [exit |-> TRUE, api_key |-> "none"]
    ELSE [exit |-> FALSE, api_key |-> strip(c.inst_typed)]

\* run() line 2597
call_get_api_key ==
    /\ call.fn = "api_key"
    /\ ~result.done
    /\ result' = [done |-> TRUE, stage |-> "run_installer",
                  cli_key |-> get_api_key_returns(call),
                  manager_key |-> "none", rc |-> NotExited,
                  requests |-> << >>]
    /\ UNCHANGED << cliVars, instVars, dp_in, call >>

\* run_vnstock_installer starts the inner installer, whose main() runs up
\* to the construction of the license manager (lines 1382-1416); it also
\* exits with 1 when ensure_critical_packages fails (1402-1410)
installer_gets_api_key ==
    /\ call.fn = "api_key"
    /\ result.done
    /\ result.stage = "run_installer"
    /\ \E critical_ready \in BOOLEAN :
       LET k == installer_api_key(call, installer_env_key(call, result.cli_key)) IN
       result' = IF k.exit \/ ~critical_ready
                 THEN [result EXCEPT !.stage = "exited", !.rc = EXIT_FAILURE]
                 ELSE [result EXCEPT !.stage = "manager",
                                     !.manager_key = k.api_key]
    /\ UNCHANGED << cliVars, instVars, dp_in, call >>

\* lines 556-563, 717-722 and 792-813: every request of the license manager
\* carries self.api_key
manager_sends_request ==
    /\ call.fn = "api_key"
    /\ result.done
    /\ result.stage = "manager"
    /\ Len(result.requests) < 3
    /\ LET endpoint == << "device-register", "packages/list",
                          "packages/download" >>[Len(result.requests) + 1] IN
       result' = [result EXCEPT !.requests =
                     Append(@, [endpoint |-> endpoint,
                                api_key |-> result.manager_key])]
    /\ UNCHANGED << cliVars, instVars, dp_in, call >>

InitKey ==
    /\ RunUnused
    /\ \E flag \in {"none"} \cup KeyTexts, env \in {"unset"} \cup KeyTexts,
          interactive \in BOOLEAN, cli_typed \in KeyTexts,
          gui_mode \in BOOLEAN, inst_typed \in {"eof"} \cup KeyTexts :
         call = [fn |-> "api_key", flag |-> flag, env |-> env,
                 interactive |-> interactive, cli_typed |-> cli_typed,
                 gui_mode |-> gui_mode, inst_typed |-> inst_typed]
    /\ result = NoResult

NextKey ==
    \/ call_get_api_key
    \/ installer_gets_api_key
    \/ manager_sends_request

SpecKey == InitKey /\ [][NextKey]_vars

(***************************************************************************)
(* The content of user_install.json over the writes of one run of the      *)
(* inner installer: after the registration, after the re-registration and  *)
(* at the end of main().  A content is the set of keys the file holds.     *)
(***************************************************************************)
\* lines 642-655: the keys every call puts into install_info
BaseKeys == {"installation_time", "device_id", "os", "ip_address", "python"}

\* lines 594-598
RegistrationData == {"registration_time", "tier", "device_limit"}

\* lines 1432-1436
RegistrationFailureData ==
    {"registration_status", "registration_error", "registration_time"}

\* lines 1651-1661
SummaryData == {"installed_packages", "installation_duration"}

\* lines 642-659: a new dict, then install_info.update(additional_data)
install_info(additional_data) == BaseKeys \cup additional_data

\* lines 661-663: open(self.user_info_path, "w") and json.dump(install_info):
\* the file holds what this call built; a failed open leaves it as it was
user_install_json(file, additional_data, write_ok) ==
    IF write_ok THEN install_info(additional_data) ELSE file

\* main() lines 1422-1438 with register_device lines 593-598
record_registration ==
    /\ call.fn = "user_install_json"
    /\ ~result.done
    /\ result' = [done |-> TRUE, stage |-> "reregister", writes |-> 1,
                  file |-> user_install_json({},
                              IF call.registered THEN RegistrationData
                              ELSE RegistrationFailureData,
                              call.write_ok[1])]
    /\ UNCHANGED << cliVars, instVars, dp_in, call >>

\* main() lines 1490-1501: after a fresh core install register_device is
\* called again; it writes the record after a 200 only
record_reregistration ==
    /\ call.fn = "user_install_json"
    /\ result.done
    /\ result.stage = "reregister"
    /\ result' = IF call.vnstock_newly_installed /\ call.reregistered
                 THEN [result EXCEPT !.stage = "summary", !.writes = @ + 1,
                          !.file = user_install_json(@, RegistrationData,
                                                     call.write_ok[2])]
                 ELSE [result EXCEPT !.stage = "summary"]
    /\ UNCHANGED << cliVars, instVars, dp_in, call >>

\* main() lines 1650-1661
record_summary ==
    /\ call.fn = "user_install_json"
    /\ result.done
    /\ result.stage = "summary"
    /\ result' = [result EXCEPT !.stage = "returned", !.writes = @ + 1,
                     !.file = user_install_json(@, SummaryData,
                                                call.write_ok[3])]
    /\ UNCHANGED << cliVars, instVars, dp_in, call >>

InitContent ==
    /\ RunUnused
    /\ \E registered \in BOOLEAN, newly \in BOOLEAN, reregistered \in BOOLEAN,
          write_ok \in [1..3 -> BOOLEAN] :
         call = [fn |-> "user_install_json", registered |-> registered,
                 vnstock_newly_installed |-> newly,
                 reregistered |-> reregistered, write_ok |-> write_ok]
    /\ result = NoResult

NextContent ==
    \/ record_registration
    \/ record_reregistration
    \/ record_summary

SpecContent == InitContent /\ [][NextContent]_vars

(***************************************************************************)
(* Properties.                                                             *)
(***************************************************************************)
\* the summary of the inner installer has been printed
summary_printed ==
    \E i \in 1..Len(stdout) : stdout[i].kind = "summary_successful"

\* the number the summary gives on its line of the given kind, 0 without one
summary_number(kind) ==
    IF \E i \in 1..Len(stdout) : stdout[i].kind = kind
    THEN stdout[CHOOSE i \in 1..Len(stdout) : stdout[i].kind = kind].n
    ELSE 0

\* the registration service answered 429 with a JSON body
device_limit_answered ==
    \E i \in 1..Len(reg_responses) : reg_responses[i] = "429"

\* C1: when the registration call returns HTTP 429, no download_package
\* call is made at any point of the run, the orchestrator ends with a
\* non-zero exit code, and it shows the message that tells the user to
\* remove devices.
C1_DeviceLimitEndsRunBeforeAnyDownload ==
    device_limit_answered =>
        /\ installation_results = << >>
        /\ ~dp.url_requested
        /\ (cli_pc = "exited" => exit_code # EXIT_SUCCESS)
        /\ (cli_pc = "exited" /\ ~interrupted
                /\ "installer_timeout" \notin cli_messages
              => "remove_unused_devices" \in cli_messages)

\* entry i of installation_results is an archive download that timed out
timed_out_entry(i) ==
    installation_results[i].message = Msg("prepared (error)", "download_timeout")

\* entry i of installation_results is an artifact installed normally
installed_entry(i) ==
    /\ installation_results[i].success
    /\ installation_results[i].message.kind = "installed successfully"

\* a finished install loop in which exactly one archive download timed out
\* and every other artifact installed normally
one_download_timeout ==
    /\ summary_printed
    /\ Cardinality({i \in 1..Len(installation_results) : timed_out_entry(i)}) = 1
    /\ \A i \in 1..Len(installation_results) :
         timed_out_entry(i) \/ installed_entry(i)

\* C2 (as the code behaves): if exactly one artifact's archive download
\* times out and every other artifact installs normally, every artifact of
\* the queue is still attempted, the timed-out artifact is recorded with
\* succeeded = true and a "prepared (error ...)" message, and the final
\* summary counts no failure at all.
C2_DownloadTimeoutIsRecordedAsPrepared ==
    one_download_timeout =>
        /\ Len(installation_results) = Len(selected_packages)
        /\ \A i \in 1..Len(installation_results) :
             timed_out_entry(i) => installation_results[i].success
        /\ summary_number("summary_failed") = 0
        /\ summary_number("summary_successful") = Len(selected_packages)

\* C2 witness: a two-artifact queue whose first download timed out and
\* whose second artifact was installed afterwards
C2_Witness ==
    /\ one_download_timeout
    /\ Len(selected_packages) = 2
    /\ timed_out_entry(1)
    /\ installed_entry(2)

\* C2 as stated: the timed-out artifact is recorded with succeeded = false
\* and the final summary counts exactly one failure.
C2_DownloadTimeoutIsRecordedAsFailed ==
    one_download_timeout =>
        /\ Len(installation_results) = Len(selected_packages)
        /\ \A i \in 1..Len(installation_results) :
             timed_out_entry(i) => ~installation_results[i].success
        /\ summary_number("summary_failed") = 1

\* C3 (as the code behaves): on Colab with no Drive mounted the run stops in
\* its first phase: no install phase is entered, the inner installer is
\* never started, no backup is made, and the exit code is 1.
C3_NoDriveStopsRunBeforeInstall ==
    is_colab /\ ~drive_mounted =>
        /\ cli_pc \in {"mount", "exited"}
        /\ venv_type = "unset"
        /\ inst_pc = "idle"
        /\ ~backup_done
        /\ (cli_pc = "exited" => exit_code = EXIT_FAILURE)
        /\ (cli_pc = "exited" /\ ~interrupted
              => "cannot_proceed_drive" \in cli_messages)

\* C3 witness: a Colab run without Drive that ended on its own
C3_Witness ==
    /\ is_colab
    /\ ~drive_mounted
    /\ cli_pc = "exited"
    /\ ~interrupted

\* C3 as stated: on Colab with no Drive mounted the run is not stopped by
\* the missing storage, makes no backup, and exits 0 when the install
\* phases succeed.
C3_NoDriveRunStillInstalls ==
    is_colab /\ ~drive_mounted =>
        /\ "cannot_proceed_drive" \notin cli_messages
        /\ ~backup_done
        /\ (cli_pc = "exited" /\ "usage_instructions" \in cli_messages
              => exit_code = EXIT_SUCCESS)

\* C4: the orchestrator exits 0 only on full success: with exit code 0 the
\* inner installer has ended with code 0 and no artifact is recorded as
\* failed, for both language settings.
C4_ExitZeroOnlyOnFullSuccess ==
    cli_pc = "exited" /\ exit_code = EXIT_SUCCESS =>
        /\ inst_rc = EXIT_SUCCESS
        /\ \A i \in 1..Len(installation_results) :
             installation_results[i].success

\* C5: a user interrupt makes the orchestrator write the summary and exit
\* with a status code different from 1, the code of a failed install.
C5_InterruptExitsWithDistinctCode ==
    interrupted =>
        /\ exit_code # EXIT_FAILURE
        /\ summary_saved

\* how many entries of s are the name n
occurrences(s, n) == Cardinality({i \in 1..Len(s) : s[i] = n})

\* the name is in the declared order list
is_known(n) == \E i \in 1..Len(package_order) : package_order[i] = n

\* the name is not in the declared order list
is_unknown(n) == ~is_known(n)

\* the four artifacts of the ordering scenario
ScenarioNames == {"vnstock_news", "vnstock_data", "vnstock_ta", "vnstock"}

\* C6: every permutation of {vnstock_news, vnstock_data, vnstock_ta,
\* vnstock} is ordered as [vnstock, vnstock_data, vnstock_ta, vnstock_news];
\* in every computed order the known artifacts appear in the declared
\* order, whatever order the service listed them in, and the computed order
\* holds the same artifacts as the list.
C6_KnownArtifactsInDeclaredOrder ==
    inst_pc = "install" =>
        /\ \A n \in SortNames :
             occurrences(selected_packages, n) = occurrences(available_packages, n)
        /\ \A i, j \in 1..Len(selected_packages) :
             (/\ i < j
              /\ is_known(selected_packages[i])
              /\ is_known(selected_packages[j]))
             => index_of(package_order, selected_packages[i])
                  <= index_of(package_order, selected_packages[j])
        /\ (/\ Len(available_packages) = 4
            /\ {available_packages[i] : i \in 1..4} = ScenarioNames)
           => selected_packages
                = << "vnstock", "vnstock_data", "vnstock_ta", "vnstock_news" >>

\* C6 witness: the scenario's list, given in reverse of the declared order,
\* has been ordered
C6_Witness ==
    /\ inst_pc = "install"
    /\ available_packages
         = << "vnstock_news", "vnstock_ta", "vnstock_data", "vnstock" >>

\* C7: in the computed order every artifact that is not in the declared
\* order list comes after every artifact that is, and the unknown artifacts
\* keep the order they had in the list.
C7_UnknownArtifactsLastInInputOrder ==
    inst_pc = "install" =>
        /\ \A i, j \in 1..Len(selected_packages) :
             (is_unknown(selected_packages[i]) /\ is_known(selected_packages[j]))
             => j < i
        /\ SelectSeq(selected_packages, is_unknown)
             = SelectSeq(available_packages, is_unknown)

\* C7 witness: two different unknown artifacts listed before and between
\* known ones have been ordered
C7_Witness ==
    /\ inst_pc = "install"
    /\ available_packages
         = << "vnstock_y", "vnstock_data", "vnstock_x", "vnstock" >>

\* a timeout or an exception is raised in one of the four stages of the
\* per-artifact flow (each answer set has one deviation from the normal run)
raised_in_flow(o) ==
    \/ o.url \in {"timeout", "neterr", "ok_nojson", "ok_nokey", "denied_nojson"}
    \/ o.dl \in {"timeout", "neterr"}
    \/ o.tmp = "write_error"
    \/ o.extract \in {"tarerror", "oserror"}
    \/ o.pip \in {"timeout", "oserror"}

\* the call returned the soft success
soft_success ==
    /\ dp.success
    /\ dp.message.kind \in {"prepared", "prepared (error)"}

\* C8 (as the code behaves): a timeout or exception raised in the URL
\* request, the archive download, the extraction or the install is caught
\* inside download_package and its result is recorded; it is reported as a
\* soft success (succeeded = true, a "prepared" message), except a
\* tarfile.TarError of the extraction, which is reported as the failure
\* "Extraction error"; either way the installer goes on with the next
\* artifact of the queue and ends with the summary.
C8_ExceptionsAreSoftSuccessExceptTarError ==
    dp.returned /\ raised_in_flow(dp_in.o) =>
        /\ IF dp_in.o.extract = "tarerror"
           THEN ~dp.success /\ dp.message.kind = "Extraction error"
           ELSE soft_success
        /\ installation_results[Len(installation_results)] = Result(dp)
        /\ (Len(installation_results) < Len(selected_packages)
              => inst_pc \in {"install", "exited"})
        /\ (inst_pc = "exited" /\ ~interrupted
                /\ "installer_timeout" \notin cli_messages
              => summary_saved)

\* C8 witness: the URL request of the first artifact timed out, and the
\* second artifact was then attempted, its install timing out
C8_Witness ==
    /\ Len(installation_results) = 2
    /\ installation_results[1].message = Msg("prepared (error)", "url_timeout")
    /\ dp.returned
    /\ dp.pip_invoked
    /\ dp_in.o.pip = "timeout"
    /\ soft_success

\* C8 as stated: every timeout or exception raised in the flow is reported
\* as a soft success, and the installer goes on with the next artifact.
C8_EveryExceptionIsSoftSuccess ==
    dp.returned /\ raised_in_flow(dp_in.o) =>
        /\ soft_success
        /\ (Len(installation_results) < Len(selected_packages)
              => inst_pc \in {"install", "exited"})

\* C9: whenever the package manager's install succeeded (exit code 0 and no
\* error indicator in its stderr), download_package reports "installed
\* successfully" whatever the import check gave; the result "package cannot
\* be imported" is never returned.
C9_ImportCheckIsAdvisory ==
    /\ dp.message.kind # "Installation failed - package cannot be imported"
    /\ (dp.returned /\ dp.pip_completed /\ dp_in.o.pip = "rc0")
         => /\ dp.verify_invoked
            /\ dp.success
            /\ dp.message.kind = "installed successfully"

\* C9 witness: the install succeeded and the import check exited non-zero
C9_Witness ==
    /\ dp.returned
    /\ dp.pip_completed
    /\ dp.verify_invoked
    /\ dp_in.o.pip = "rc0"
    /\ dp_in.o.verify = "nonzero"

\* the extracted archive has no build descriptor at its root or in an
\* immediate subdirectory
no_descriptor(a) ==
    /\ ~a.root
    /\ \A i \in 1..Len(a.items) : a.items[i] # "dir_desc"

\* C10 (as the code behaves): for an archive with no build descriptor at
\* its root or in an immediate subdirectory, download_package returns a
\* failure, never invokes the package manager and writes nothing to the
\* interpreter's install location; the message is "Package structure
\* invalid", or "No files extracted" when the archive extracted to nothing.
C10_NoDescriptorFailsBeforeInstall ==
    dp.returned /\ no_descriptor(dp_in.o.archive) =>
        /\ ~dp.success
        /\ dp.message.kind =
             (IF dp_in.o.archive.items = << >> THEN "No files extracted"
              ELSE "Package structure invalid")
        /\ ~dp.pip_invoked
        /\ ~dp.wrote_site

\* C10 witness: an archive whose only descriptor lies two levels down
C10_Witness ==
    /\ dp.returned
    /\ dp_in.o.archive = [root |-> FALSE, items |-> << "file", "dir_deep" >>]
    /\ dp.message.kind = "Package structure invalid"

\* C10 as stated: the failure is always "Package structure invalid".
C10_NoDescriptorIsStructureInvalid ==
    dp.returned /\ no_descriptor(dp_in.o.archive) =>
        /\ ~dp.success
        /\ dp.message.kind = "Package structure invalid"
        /\ ~dp.pip_invoked
        /\ ~dp.wrote_site

\* C11: the directory chosen for the install is the extraction root when a
\* descriptor is there, otherwise the first immediate subdirectory that
\* directly holds a descriptor, otherwise none; a directory that holds a
\* descriptor only further down is never chosen, and the install is invoked
\* only on the root or on such a direct child.
C11_DescriptorAtRootOrFirstDirectChild ==
    dp.returned /\ dp.extracted =>
        LET a == dp_in.o.archive
            holders == {i \in 1..Len(a.items) : a.items[i] = "dir_desc"}
        IN  /\ a.root => dp.setup_dir = "root" /\ dp.setup_index = 0
            /\ (~a.root /\ holders # {})
                 => /\ dp.setup_dir = "child"
                    /\ dp.setup_index \in holders
                    /\ \A i \in holders : dp.setup_index <= i
            /\ (~a.root /\ holders = {})
                 => dp.setup_dir = "none" /\ ~dp.pip_invoked
            /\ dp.pip_invoked => dp.setup_dir \in {"root", "child"}

\* C11 witness: the first entry holds a descriptor only further down, the
\* second holds one directly and was chosen
C11_Witness ==
    /\ dp.returned
    /\ dp_in.o.archive = [root |-> FALSE, items |-> << "dir_deep", "dir_desc" >>]
    /\ dp.setup_dir = "child"
    /\ dp.setup_index = 2
    /\ dp.pip_invoked

\* the download, the write of the archive or the extraction failed, or the
\* extraction produced nothing
failed_before_install(o) ==
    \/ o.url # "ok"
    \/ o.dl # "ok"
    \/ o.tmp # "ok"
    \/ o.extract # "ok"
    \/ (~o.archive.root /\ o.archive.items = << >>)

\* C12: the package manager is invoked only after the archive has been
\* downloaded, written, extracted into a fresh temporary directory and a
\* build descriptor located in it; after a failed download, a failed
\* extraction or an empty extraction it is never invoked and nothing is
\* written to the target interpreter.
C12_InstallOnlyAfterDownloadExtractLocate ==
    /\ dp.pip_invoked =>
         /\ dp.url_requested
         /\ dp.archive_requested
         /\ dp.tar_created
         /\ dp.dir_created
         /\ dp.extracted
         /\ dp.setup_dir \in {"root", "child"}
         /\ ~failed_before_install(dp_in.o)
    /\ dp.wrote_site => dp.pip_invoked
    /\ (dp.returned /\ failed_before_install(dp_in.o))
         => ~dp.pip_invoked /\ ~dp.wrote_site

\* C12 witness: the extraction raised a TarError and the call returned
\* without an install
C12_Witness ==
    /\ dp.returned
    /\ dp.dir_created
    /\ dp_in.o.extract = "tarerror"
    /\ ~dp.pip_invoked

\* the package names the install must place first
CriticalNames == {"typing_extensions", "vnai", "vnii"}

C14_FingerprintSameOnSecondCall ==
    (call.fn = "get_hardware_uuid" /\ Len(result.values) = 2)
        => result.values[1] = result.values[2]

\* C15: get_hardware_uuid never returns an empty string, and
\* generate_device_id either raises or returns a non-empty device_id.
C15_FingerprintNeverEmpty ==
    /\ call.fn = "get_hardware_uuid"
         => \A i \in 1..Len(result.values) : result.values[i].text # ""
    /\ (call.fn = "generate_device_id" /\ result.done)
         => (result.raised \/ result.device_id # "")

core_was_installed ==
    \E i \in 1..Len(stdout) :
        stdout[i].kind = "core" /\ stdout[i].text = "installed"

\* C17: the installer registers the device a second time exactly when the
\* core was absent and its install succeeded in this run; the second
\* registration comes after that install and before the artifact list is
\* fetched, and whatever its answer the installer goes on to the listing.
C17_ReRegistrationFollowsFreshCoreInstall ==
    /\ [](/\ Len(reg_responses) <= 2
          /\ Len(reg_responses) = 2 => core_was_installed
          /\ inst_pc \in {"list", "sort", "install", "save"} =>
                (Len(reg_responses) = 2 <=> core_was_installed)
          /\ inst_pc = "reregister" =>
                Len(reg_responses) = 1 /\ available_packages = << >>)
    /\ [][(reg_responses' # reg_responses /\ Len(reg_responses) = 1) =>
             /\ core_was_installed
             /\ available_packages = << >>
             /\ inst_pc = "reregister"
             /\ inst_pc' = "list"]_vars

\* C17 witness: the second registration failed and an artifact was
\* installed afterwards
C17_Witness ==
    /\ Len(reg_responses) = 2
    /\ reg_responses[2] # "200"
    /\ core_was_installed
    /\ Len(installation_results) >= 1
    /\ installation_results[1].success

\* the answers that carry the HTTP status 429
is_status_429(a) == a \in {"429", "429_nojson", "429_notdict"}

\* C18: every register_device call answered with HTTP 429 returns a failure
\* classified as device limit exceeded, carrying the server's text, after
\* one request only; no answer with another status is classified so.
C18_Status429IsDeviceLimitExceeded ==
    call.fn = "register" =>
        \A i \in 1..Len(result.answers) :
            /\ result.results[i].posts = 1
            /\ is_status_429(result.answers[i]) =>
                 /\ ~result.results[i].ok
                 /\ result.results[i].message = "Device limit exceeded"
                 /\ result.results[i].detail = "limit of 2 devices reached"
            /\ ~is_status_429(result.answers[i]) =>
                 result.results[i].message # "Device limit exceeded"

\* an isolated runtime was requested and create_virtual_environment ran
isolation_requested ==
    /\ call.fn = "create_virtual_environment"
    /\ result.done
    /\ result.called
    /\ call.venv_type # "system"

\* C19: when an isolated runtime was requested and deleting the unhealthy
\* one or creating the new one fails, the run does not end there: it goes
\* on with the following phases.
C19_VenvFailureFallsBackToAmbient ==
    (isolation_requested
        /\ result.message \in {"venv_removed_failed", "uv_not_installed",
                               "create_failed"}) =>
        result.run = "continues"

\* C20: an existing runtime whose interpreter binary is present is reused as
\* it is, with no change asked of the file system; the target path is
\* deleted only when it exists and the interpreter binary is missing.
C20_HealthyVenvIsReused ==
    (call.fn = "create_virtual_environment" /\ result.done) =>
        /\ (result.called /\ call.venv_type # "system"
              /\ call.path.exists /\ call.path.binary) =>
             /\ result.ret
             /\ result.ops = << >>
             /\ result.path = call.path
        /\ (\E i \in 1..Len(result.ops) : result.ops[i] = "rmtree") =>
             call.path.exists /\ ~call.path.binary

\* C20 witness: a healthy runtime was found and kept although a deletion or
\* a creation would have failed
C20_Witness ==
    /\ isolation_requested
    /\ call.path.exists /\ call.path.binary
    /\ ~call.rmtree_ok /\ ~call.create_ok
    /\ result.message = "reused"
    /\ result.run = "continues"

\* C21: when Colab or Codespaces is detected the configuration is the
\* ambient interpreter with no venv path, create_virtual_environment asks
\* no change of the file system and the run goes on; with both detected the
\* Colab branch is the one taken.
C21_NoVenvInColabOrCodespaces ==
    (call.fn = "create_virtual_environment"
        /\ (call.is_colab \/ call.is_codespaces)
        /\ call.venv_type # "unset") =>
        /\ call.venv_type = "system"
        /\ ~call.path_set
        /\ call.is_colab => call.select_message = "colab_temp_install"
        /\ result.done =>
             /\ result.ops = << >>
             /\ result.path = call.path
             /\ result.run = "continues"
             /\ call.is_colab => ~result.called

\* C21 witness: Codespaces alone, an interactive terminal, a broken venv
\* directory at the default place, and the venv step is over
C21_Witness ==
    /\ call.fn = "create_virtual_environment"
    /\ call.is_codespaces /\ ~call.is_colab
    /\ call.interactive
    /\ call.path.exists /\ ~call.path.binary
    /\ result.done
    /\ result.called
    /\ result.message = "system"

\* the steps the bootstrap is said to go through, in order
AllUvFallbacks == << "probe", "standalone", "pip_elevated", "pip_plain" >>

\* C22: ensure_uv_installed returns false only after the probe, the
\* standalone installer, pip with the elevated flag and pip without it
\* were all run, in this order; no failure of an earlier step ends it while
\* a later one is untried.
C22_FalseOnlyAfterEveryFallback ==
    (call.fn = "ensure_uv_installed" /\ result.done
        /\ result.ret # "true") =>
        /\ result.ret = "false"
        /\ result.tried = AllUvFallbacks

\* C23: when the bootstrap did not succeed, the process that ran it ends
\* with exit code 1 and never reaches the artifact installs.
C23_FailedBootstrapEndsRun ==
    (call.fn = "ensure_uv_installed" /\ result.done
        /\ result.run # "pending" /\ result.ret # "true") =>
        result.run = "exit_1"

\* what the caller does after a record write in which nothing failed
after_successful_record(site) ==
    after_record(site, [raised |-> FALSE,
                        written |-> {"user_install.json", "user.json"},
                        warned |-> FALSE])

\* something failed inside the record write
record_write_failed ==
    \/ call.ip = "fails"
    \/ call.python_info = "raises"
    \/ call.install_json = "oserror"
    \/ call.user_json = "oserror"
    \/ call.webhook \in {"http_error", "raises"}

\* C24: writing the installation record is never fatal: whatever fails
\* inside it (IP lookup, either file, the webhook), the call returns
\* normally and the caller goes on exactly as after a successful write.
C24_RecordWriteIsNeverFatal ==
    (call.fn = "_save_installation_info" /\ result.done) =>
        /\ ~result.raised
        /\ result.next # "pending" =>
             result.next = after_successful_record(call.site)

\* C24 witness: the final write of main() could not write user.json and
\* the process still ends with 0
C24_Witness ==
    /\ call.fn = "_save_installation_info"
    /\ call.site = "final"
    /\ record_write_failed
    /\ call.user_json = "oserror"
    /\ result.done
    /\ result.warned
    /\ result.next = "exit_0"

\* the backup phase of a run is over
backup_phase_over ==
    /\ call.fn = "backup"
    /\ result.done
    /\ result.stage = "backed_up"

\* something was written to the Drive
backup_written ==
    result.mkdir \/ result.copied # {} \/ result.config_copied

\* C25: a failure during the backup (locating site-packages, creating the
\* backup directory, copying a folder or a config file, timeouts and
\* exceptions included) never fails the run: run() goes on to validation.
C25_BackupFailureIsNeverFatal ==
    backup_phase_over => result.run = "validate"

validation_done ==
    cli_messages \cap {"usage_instructions", "install_incomplete"} # {}

\* the inner installer printed a line about the core
core_checked ==
    \E i \in 1..Len(stdout) : stdout[i].kind = "core"

\* the order of the phases up to validation, as state relations: a later
\* phase has left its mark only when the earlier ones have
phases_in_order ==
    /\ core_checked => Len(reg_responses) >= 1
    /\ available_packages # << >> =>
         /\ core_checked
         /\ Len(reg_responses) = (IF core_was_installed THEN 2 ELSE 1)
    /\ installation_results # << >> => available_packages # << >>
    /\ summary_printed =>
         /\ selected_packages # << >>
         /\ Len(installation_results) = Len(selected_packages)
    /\ backup_done =>
         /\ inst_pc = "exited"
         /\ summary_printed
         /\ Len(installation_results) = Len(selected_packages)
    /\ validation_done =>
         /\ inst_pc = "exited"
         /\ summary_printed
         /\ is_colab => backup_done

C28_EveryStepTargetsOneInterpreter ==
    (call.fn = "targets" /\ Len(result.targets) = Len(TargetSteps)) =>
        \A i, j \in 1..Len(TargetSteps) :
            result.targets[i] = result.targets[j]

\* C29: at every point of a run after the API key has been saved, every
\* credential file that exists has mode 0600.
C29_CredentialFileIsOwnerOnly ==
    (call.fn = "credential" /\ result.saved) =>
        \A where \in {"home", "drive"} :
            result.files[where] \in {"absent", "0600"}

\* C30: a delay follows each artifact install that is followed by another
\* one and none follows the last: once a queue of n artifacts is worked
\* off, n-1 delays have occurred, repeated entries in the queue included.
C30_OneDelayBetweenSuccessiveInstalls ==
    (selected_packages # << >>
        /\ Len(installation_results) = Len(selected_packages)) =>
        delays = Len(selected_packages) - 1

\* C31: artifacts are installed one at a time: every attempt is for the
\* next artifact of the computed order and adds exactly one entry to the
\* results, earlier entries are never changed, and when the summary is
\* printed the results hold one entry per selected artifact in that order,
\* whatever the outcome of each attempt.
C31_ArtifactsInstalledOneAtATime ==
    /\ [](/\ Len(installation_results) <= Len(selected_packages)
          /\ \A i \in 1..Len(installation_results) :
                installation_results[i].name = selected_packages[i]
          /\ summary_printed =>
                Len(installation_results) = Len(selected_packages))
    /\ [][installation_results' # installation_results =>
             /\ Len(installation_results') = Len(installation_results) + 1
             /\ SubSeq(installation_results', 1, Len(installation_results))
                  = installation_results
             /\ dp_in'.name = selected_packages[Len(installation_results) + 1]
             /\ selected_packages' = selected_packages]_vars

\* C31 witness: two different artifacts, the first attempt failed, the
\* second succeeded, and the summary was printed
C31_Witness ==
    /\ Len(selected_packages) = 2
    /\ selected_packages[1] # selected_packages[2]
    /\ Len(installation_results) = 2
    /\ ~installation_results[1].success
    /\ installation_results[2].success
    /\ summary_printed

\* the batch install of install_dependencies was run
batch_was_run ==
    /\ call.fn = "install_with_uv"
    /\ result.done
    /\ \E i \in 1..Len(result.invocations) : ~result.invocations[i].upgrade

\* C32: a non-zero result of the batch dependency install is reported as a
\* warning only: install_dependencies returns success and run() goes on to
\* the next phase.
C32_BatchNonZeroIsOnlyAWarning ==
    (batch_was_run /\ call.batch = "nonzero") =>
        /\ result.ret
        /\ result.message = "Some packages had warnings"
        /\ result.run \in {"pending", "install_critical_dependencies"}

\* C32 witness: the batch ended with a non-zero code and run() went on
C32_Witness ==
    /\ batch_was_run
    /\ call.batch = "nonzero"
    /\ call.critical = "nonzero"
    /\ result.run = "install_critical_dependencies"

\* how often a requirement stands in a list
times_in(r, list) == Cardinality({i \in 1..Len(list) : list[i] = r})

\* how often a requirement is given to an install with or without --upgrade
times_installed(r, upgrade) ==
    IF \E i \in 1..Len(result.invocations) :
           result.invocations[i].upgrade = upgrade
    THEN times_in(r, result.invocations[
             CHOOSE i \in 1..Len(result.invocations) :
                 result.invocations[i].upgrade = upgrade].packages)
    ELSE 0

install_timed_out ==
    /\ call.fn = "install_with_uv"
    /\ result.done
    /\ \/ /\ critical_packages(call.filtered_list) # << >>
          /\ call.critical = "timeout"
       \/ /\ Len(result.invocations) > 0
          /\ ~result.invocations[Len(result.invocations)].upgrade
          /\ call.batch = "timeout"

\* C34: a timeout of an install is a failure of that step only: after a
\* timeout of the critical-package install or of the batch dependency
\* install, run() continues with its next phase.
C34_TimeoutNeverEndsTheRun ==
    install_timed_out =>
        result.run \in {"pending", "install_critical_dependencies"}

\* at most one registration call follows a call ended by a network error
network_error_retried_once_at_most ==
    \A i, j \in 2..Len(reg_responses) :
        (reg_responses[i - 1] = "neterr" /\ reg_responses[j - 1] = "neterr")
            => i = j

\* C35: in one run the device-registration endpoint is called at most
\* twice, one request per call, and a registration that ended with a
\* network error is repeated at most once; download_package is called at
\* most once per entry of the queue, and a call sends the download-URL
\* request once and the archive download at most once.
C35_RetryBounds ==
    /\ Len(reg_responses) <= 2
    /\ \A i \in 1..Len(reg_responses) :
         register_device(reg_responses[i]).posts = 1
    /\ network_error_retried_once_at_most
    /\ Len(installation_results) <= Len(selected_packages)
    /\ dp.url_posts <= 1
    /\ dp.archive_gets <= 1
    /\ dp.returned => dp.url_posts = 1

\* C35 witness: the first registration ended with a network error and was
\* repeated once after the core install; an archive download timed out and
\* the run went on to print its summary
C35_Witness ==
    /\ reg_responses = << "neterr", "neterr" >>
    /\ summary_printed
    /\ \E i \in 1..Len(installation_results) :
         installation_results[i].message
            = Msg("prepared (error)", "download_timeout")
    /\ dp.returned
    /\ dp.url_posts = 1

\* C36: when download_package returns, the temporary archive file it
\* created is deleted and the temporary extraction directory it created is
\* removed, on every path.
C36_TemporariesAreReleased ==
    dp.returned => (~dp.tar_left /\ ~dp.dir_left)

\* C37: download_package returns 'installed successfully' only when the
\* install subprocess ended with exit code 0 and its error stream holds
\* none of the failure indicators; when it ended with a non-zero exit code
\* or its error stream holds an indicator, the call returns a failure.
C37_DefiniteSuccessNeedsCleanInstall ==
    dp.returned =>
        /\ dp.message.kind = "installed successfully" =>
             /\ dp.success
             /\ dp.pip_completed
             /\ dp_in.o.pip = "rc0"
        /\ (dp.pip_completed /\ dp_in.o.pip \in {"rc1", "rc0_stderr_indicator"}) =>
             /\ ~dp.success
             /\ dp.message.kind = "Installation failed - pip error (check logs)"
             /\ ~dp.verify_invoked

\* C37 witness: the install ended with exit code 0 and an indicator in its
\* error stream, and the call returned a failure
C37_Witness ==
    /\ dp.returned
    /\ dp.pip_completed
    /\ dp_in.o.pip = "rc0_stderr_indicator"
    /\ ~dp.success

\* the download-URL request or the archive download was answered with a
\* status other than 200
answered_non_200 ==
    \/ dp_in.o.url \in {"denied", "denied_nojson"}
    \/ dp_in.o.url = "ok" /\ dp_in.o.dl = "non200"

\* C38: when the download-URL request or the archive download is answered
\* with a status other than 200, download_package returns a failure and
\* neither extracts nor installs, whatever the body of the answer.
C38_Non200FailsTheArtifact ==
    (dp.returned /\ answered_non_200) =>
        /\ ~dp.success
        /\ ~dp.dir_created
        /\ ~dp.pip_invoked

\* no non-empty key: no flag, no environment variable, and nothing but
\* blanks typed at either prompt
no_key_available ==
    /\ call.fn = "api_key"
    /\ call.flag \in {"none", ""}
    /\ call.env \in {"unset", ""}
    /\ ~call.interactive \/ call.cli_typed \in {"", "  "}
    /\ call.inst_typed \in {"eof", "", "  "}

\* C39: no request is sent without a key: every request carries a
\* non-empty key, and when no non-empty key is available the inner
\* installer exits with 1 before the license manager is constructed, so
\* no request is sent.
C39_NoRequestWithoutCredential ==
    (call.fn = "api_key" /\ result.done) =>
        /\ \A i \in 1..Len(result.requests) :
             result.requests[i].api_key \notin {"", "none", "unset"}
        /\ result.stage = "manager" =>
             result.manager_key \notin {"", "none", "unset"}
        /\ (no_key_available /\ result.stage # "run_installer") =>
             /\ result.stage = "exited"
             /\ result.rc = EXIT_FAILURE
             /\ result.manager_key = "none"
             /\ result.requests = << >>

\* C39 witness: an interactive run in which only blanks were typed at both
\* prompts; the inner installer has exited
C39_Witness ==
    /\ no_key_available
    /\ call.interactive
    /\ call.cli_typed = "  "
    /\ call.inst_typed = "  "
    /\ ~call.gui_mode
    /\ result.done
    /\ result.stage = "exited"

\* a registration succeeded and its data was written to the record
registration_was_recorded ==
    /\ call.fn = "user_install_json"
    /\ \/ call.registered /\ call.write_ok[1]
       \/ call.vnstock_newly_installed /\ call.reregistered /\ call.write_ok[2]

\* C40: after a run in which a registration succeeded and was recorded,
\* the record still holds the registration data (tier, device limit,
\* registration time) once the final write with the per-artifact outcomes
\* has been made.
C40_RegistrationDataSurvivesSummaryWrite ==
    (registration_was_recorded /\ result.done /\ result.stage = "returned") =>
        RegistrationData \subseteq result.file

=============================================================================
